---- MODULE Spec2Model ----
(***************************************************************************)
(* Model of the Claude Code log parser of claude-arena                     *)
(* (backend/parsers/claude_logs.py): the line-by-line session builder      *)
(* (_parse_session_file / _process_log_entry), the project and global      *)
(* aggregators (_parse_project_logs / parse_all_projects), the aggregate   *)
(* statistics (_calculate_aggregate_stats) and the export                  *)
(* (export_for_arena); and of the import script                            *)
(* (scripts/import_claude_logs.py): calculate_leaderboard_scores and main. *)
(*                                                                         *)
(* Python values are represented as follows.  A dict is a function whose   *)
(* DOMAIN is its key set, so `"k" in d` is "k" \in DOMAIN d.  None in a    *)
(* string-valued slot is the string None below; a JSON null in a numeric   *)
(* slot is Null.  A str/list duck-typed content is a one-field record      *)
(* [str |-> ..] or [list |-> ..].  A text is [s |-> name, n |-> length].   *)
(* A path or project name is the sequence of its tokens, where "-" and     *)
(* "/" are the separator characters and any other token is a word.         *)
(***************************************************************************)
EXTENDS Integers, Sequences, FiniteSets, TLC

VARIABLES
    include_conversations, \* the include_conversations argument
    file,                  \* SpecFile: the session file being parsed
    fpc,                   \* SpecFile: position in _parse_session_file
    idx,                   \* SpecFile: number of lines already looped over
    session_data,          \* SpecFile: the session_data accumulator
    result,                \* SpecFile: value returned by _parse_session_file
    root_exists,           \* Spec: self.base_path.exists()
    tree,                  \* Spec: the root entries and the files read so far
    pc,                    \* Spec: position in parse_all_projects
    entries_left,          \* Spec: root entries iterdir() has yet to yield
    project_dir,           \* Spec: the directory _parse_project_logs is in
    files_left,            \* Spec: files glob("*.jsonl") has yet to yield
    project_data,          \* Spec: accumulator of _parse_project_logs
    all_data,              \* Spec: accumulator of parse_all_projects
    apc,                   \* SpecArena: position in the export of the result
    arena_data,            \* SpecArena: the dict export_for_arena builds
    name_arg,              \* SpecName: the argument of _extract_project_name
    name_result,           \* SpecName: the value it returns
    mpc,                   \* SpecMain: position in main
    args,                  \* SpecMain: the parsed command line
    response,              \* SpecMain: the answer read by input()
    calls,                 \* SpecMain: the parser and export calls made
    saved,                 \* SpecMain: the output file has been written
    exit_code              \* SpecMain: the value main returns

fileVars == <<file, fpc, idx, session_data, result>>
pipeVars == <<root_exists, tree, pc, entries_left, project_dir, files_left,
              project_data, all_data>>
arenaVars == <<apc, arena_data>>
nameVars == <<name_arg, name_result>>
mainVars == <<mpc, args, response, calls, saved, exit_code>>

----------------------------------------------------------------------------
(* Python values *)

None == "<None>"
Null == 0 - 1
NoSession == [none |-> TRUE]
Raised == [raised |-> TRUE]

IsNoSession(r) == "none" \in DOMAIN r
IsRaised(r) == "raised" \in DOMAIN r

\* Python truthiness of a string-or-None value
Falsy(v) == v = None \/ v = ""

\* dict.get(key, default)
Get(d, key, default) == IF key \in DOMAIN d THEN d[key] ELSE default

----------------------------------------------------------------------------
(* Timestamps: the ISO-8601 strings of the model, and what                 *)
(* datetime.fromisoformat(ts.replace('Z', '+00:00')) makes of them.        *)

T1 == "2024-01-01T10:00:00Z"
T2 == "2024-01-01T10:05:30Z"
T3 == "2024-01-02T23:00:00Z"
T4 == "2024-01-01T23:30:00+05:00"
BadTs == "not-a-date"

IsoTimes == {T1, T2, T3, T4}

\* seconds since 2024-01-01T00:00:00Z of a valid timestamp
Seconds(ts) ==
    CASE ts = T1 -> 36000
      [] ts = T2 -> 36330
      [] ts = T3 -> 169200
      [] ts = T4 -> 66600

\* the .hour of the parsed datetime: the wall-clock hour written in the
\* string, whatever its UTC offset
Hour(ts) ==
    CASE ts = T1 -> 10
      [] ts = T2 -> 10
      [] ts = T3 -> 23
      [] ts = T4 -> 23

\* the hour of the same instant in UTC
UtcHour(ts) == (Seconds(ts) \div 3600) % 24

\* ts[:10]
DateOf(ts) ==
    CASE ts \in {T1, T2, T4} -> "2024-01-01"
      [] ts = T3 -> "2024-01-02"
      [] OTHER -> ts

\* position of a string in the order str comparison gives
StrRank(str) ==
    CASE str = "" -> 0
      [] str = T1 -> 1
      [] str = T2 -> 2
      [] str = T4 -> 3
      [] str = "2024-01-01" -> 1
      [] str = "2024-01-02" -> 4
      [] str = T3 -> 4
      [] str = BadTs -> 5

----------------------------------------------------------------------------
(* The session record created at the start of _parse_session_file *)

TokenTypes == {"input", "output", "cache_read", "cache_creation"}

\* NewSession with a conversations list whatever the flag
NewSession_AlwaysList(stem, inc) ==
    [ session_id       |-> stem,
      messages         |-> <<>>,
      conversations    |-> [list |-> <<>>],
      tools_used       |-> {},
      token_usage      |-> [t \in TokenTypes |-> 0],
      errors           |-> <<>>,
      model            |-> None,
      project          |-> <<None>>,
      git_branch       |-> None,
      start_time       |-> None,
      end_time         |-> None,
      duration_seconds |-> 0 ]

NewSession(stem, inc) ==
    [ session_id       |-> stem,
      messages         |-> <<>>,
      conversations    |-> IF inc THEN [list |-> <<>>] ELSE [null |-> TRUE],
      tools_used       |-> {},
      token_usage      |-> [t \in TokenTypes |-> 0],
      errors           |-> <<>>,
      model            |-> None,
      project          |-> <<None>>,
      git_branch       |-> None,
      start_time       |-> None,
      end_time         |-> None,
      duration_seconds |-> 0 ]

----------------------------------------------------------------------------
(* _extract_project_name, on token sequences *)

Separators == {"-", "/"}

RECURSIVE LStrip(_)
LStrip(s) == IF s # <<>> /\ Head(s) \in Separators THEN LStrip(Tail(s)) ELSE s

RECURSIVE RStrip(_)
RStrip(s) ==
    IF s # <<>> /\ s[Len(s)] \in Separators
    THEN RStrip(SubSeq(s, 1, Len(s) - 1))
    ELSE s

\* str.strip("-/")
Strip(s) == RStrip(LStrip(s))

\* str.split("-"): the parts between the "-" tokens; never an empty list
RECURSIVE SplitDash(_, _)
SplitDash(s, cur) ==
    IF s = <<>> THEN <<cur>>
    ELSE IF Head(s) = "-" THEN <<cur>> \o SplitDash(Tail(s), <<>>)
    ELSE SplitDash(Tail(s), Append(cur, Head(s)))

Split(s) == SplitDash(s, <<>>)

\* "-".join(parts)
RECURSIVE Join(_)
Join(parts) ==
    IF parts = <<>> THEN <<>>
    ELSE IF Len(parts) = 1 THEN parts[1]
    ELSE parts[1] \o <<"-">> \o Join(Tail(parts))

\* the positions i (1-based) with parts[i] == "project" and a part after it
ProjectMarks(parts) ==
    {i \in 1..Len(parts) : parts[i] = <<"project">> /\ i < Len(parts)}

Min(S) == CHOOSE x \in S : \A y \in S : x <= y

LastComponents == 3

\* ExtractProjectName that cuts after the last "project" part, not the first
ExtractProjectName_LastProject(path_str) ==
    LET clean_name == Strip(path_str)
        parts == Split(clean_name)
        usersPath == Len(clean_name) >= 2 /\ clean_name[1] = "Users"
                     /\ clean_name[2] = "-"
        last == CHOOSE i \in ProjectMarks(parts) :
                    \A j \in ProjectMarks(parts) : j <= i
    IN  IF usersPath /\ ProjectMarks(parts) # {}
        THEN Join(SubSeq(parts, last + 1, Len(parts)))
        ELSE IF Len(parts) > LastComponents
        THEN Join(SubSeq(parts, Len(parts) - LastComponents + 1, Len(parts)))
        ELSE clean_name

ExtractProjectName(path_str) ==
    LET clean_name == Strip(path_str)
        parts == Split(clean_name)
        usersPath == Len(clean_name) >= 2 /\ clean_name[1] = "Users"
                     /\ clean_name[2] = "-"
    IN  IF usersPath /\ ProjectMarks(parts) # {}
        THEN Join(SubSeq(parts, Min(ProjectMarks(parts)) + 1, Len(parts)))
        ELSE IF Len(parts) > LastComponents
        THEN Join(SubSeq(parts, Len(parts) - LastComponents + 1, Len(parts)))
        ELSE clean_name

\* Python truthiness of a project name (None or the empty string)
FalsyPath(p) == p = <<None>> \/ p = <<>>

----------------------------------------------------------------------------
(* _process_log_entry and the handlers it dispatches to *)

\* WithTimestamp without the `if not start_time` test
WithTimestamp_Overwrite(entry, sd) ==
    IF "timestamp" \in DOMAIN entry
    THEN [sd EXCEPT !.start_time = entry.timestamp,
                    !.end_time = entry.timestamp]
    ELSE sd

\* lines 160-164: first/last seen timestamp
WithTimestamp(entry, sd) ==
    IF "timestamp" \in DOMAIN entry
    THEN [sd EXCEPT !.start_time = IF Falsy(@) THEN entry.timestamp ELSE @,
                    !.end_time = entry.timestamp]
    ELSE sd

\* lines 167-168
WithProject(entry, sd) ==
    IF "cwd" \in DOMAIN entry /\ FalsyPath(sd.project)
    THEN [sd EXCEPT !.project = ExtractProjectName(entry.cwd)]
    ELSE sd

\* lines 171-172
WithGitBranch(entry, sd) ==
    IF "gitBranch" \in DOMAIN entry /\ Falsy(sd.git_branch)
    THEN [sd EXCEPT !.git_branch = entry.gitBranch]
    ELSE sd

Message(entry) == Get(entry, "message", <<>>)

\* every counter fed from input_tokens
UsageKey_AllInput(t) == "input_tokens"

\* the usage sub-field of each session counter
UsageKey(t) ==
    CASE t = "input" -> "input_tokens"
      [] t = "output" -> "output_tokens"
      [] t = "cache_read" -> "cache_read_input_tokens"
      [] t = "cache_creation" -> "cache_creation_input_tokens"

\* names of the tool_use items of a content list (lines 206-209)
ToolNames(items) ==
    {Get(items[i], "name", "unknown") :
        i \in {j \in 1..Len(items) : Get(items[j], "type", None) = "tool_use"}}

\* _process_assistant_entry raises: int += None (TypeError), or .get on the
\* characters of a non-empty str content (AttributeError)
AssistantRaises(entry) ==
    LET message == Message(entry) IN
    \/ /\ "usage" \in DOMAIN message
       /\ \E t \in TokenTypes : Get(message.usage, UsageKey(t), 0) = Null
    \/ /\ "content" \in DOMAIN message
       /\ "str" \in DOMAIN message.content
       /\ message.content.str.n > 0

ProcessAssistantEntry(entry, sd) ==
    LET message == Message(entry)
        sd1 == IF "model" \in DOMAIN message /\ Falsy(sd.model)
               THEN [sd EXCEPT !.model = message.model] ELSE sd
        sd2 == IF "usage" \in DOMAIN message
               THEN [sd1 EXCEPT !.token_usage =
                        [t \in TokenTypes |->
                            @[t] + Get(message.usage, UsageKey(t), 0)]]
               ELSE sd1
    IN  IF "content" \in DOMAIN message /\ "list" \in DOMAIN message.content
        THEN [sd2 EXCEPT !.tools_used = @ \cup ToolNames(message.content.list)]
        ELSE sd2

\* str.startswith("Error:") on the tool results of the model
ErrorResult == "Error: command failed"
StartsWithError(s) == s = ErrorResult

\* the entries appended for the tool_result items with is_error (lines 216-222)
RECURSIVE ItemErrors(_, _)
ItemErrors(items, ts) ==
    IF items = <<>> THEN <<>>
    ELSE LET item == Head(items)
             hit == /\ Get(item, "type", None) = "tool_result"
                    /\ Get(item, "is_error", FALSE)
         IN  (IF hit
              THEN <<[timestamp |-> ts,
                      error |-> Get(item, "content", "Unknown error")]>>
              ELSE <<>>) \o ItemErrors(Tail(items), ts)

\* ProcessUserEntry without the check of toolUseResult (lines 225-230)
ProcessUserEntry_SkipsResult(entry, sd) ==
    LET message == Message(entry)
        ts == Get(entry, "timestamp", None)
        items == IF "content" \in DOMAIN message
                    /\ "list" \in DOMAIN message.content
                 THEN message.content.list ELSE <<>>
    IN  [sd EXCEPT !.errors = @ \o ItemErrors(items, ts)]

\* lines 211-230
ProcessUserEntry(entry, sd) ==
    LET message == Message(entry)
        ts == Get(entry, "timestamp", None)
        items == IF "content" \in DOMAIN message
                    /\ "list" \in DOMAIN message.content
                 THEN message.content.list ELSE <<>>
        tool_result == Get(entry, "toolUseResult", [obj |-> TRUE])
        resultErr == IF "str" \in DOMAIN tool_result
                        /\ StartsWithError(tool_result.str)
                     THEN <<[timestamp |-> ts, error |-> tool_result.str]>>
                     ELSE <<>>
    IN  [sd EXCEPT !.errors = @ \o ItemErrors(items, ts) \o resultErr]

\* a system event recorded as an error of the session
ProcessSystemEntry_RecordsError(entry, sd) ==
    [sd EXCEPT !.errors =
        Append(@, [timestamp |-> Get(entry, "timestamp", None),
                   error |-> "system"])]

\* _process_system_entry: pass
ProcessSystemEntry(entry, sd) == sd

ContentLimit == 1000

\* the text kept whole
Truncate_KeepsAll(text) == text

\* text[:1000]
Truncate(text) ==
    [text EXCEPT !.n = IF @ > ContentLimit THEN ContentLimit ELSE @]

EmptyText == [s |-> "", n |-> 0]

\* the text of the first text-typed item of a content list, "" if none
RECURSIVE FirstText(_)
FirstText(items) ==
    IF items = <<>> THEN EmptyText
    ELSE IF Get(Head(items), "type", None) = "text"
    THEN Get(Head(items), "text", EmptyText)
    ELSE FirstText(Tail(items))

\* tool_use names of a content list, in order, repeats kept (lines 272-274)
RECURSIVE ToolNameList(_)
ToolNameList(items) ==
    IF items = <<>> THEN <<>>
    ELSE (IF Get(Head(items), "type", None) = "tool_use"
          THEN <<Get(Head(items), "name", "unknown")>> ELSE <<>>)
         \o ToolNameList(Tail(items))

ExtractConversation(entry, sd, role) ==
    LET message == Message(entry)
        content == Get(message, "content", [str |-> EmptyText])
        isList == "list" \in DOMAIN content
        text_content ==
            IF isList THEN FirstText(content.list)
            ELSE IF role = "user" THEN content.str
            ELSE EmptyText
        conversation_entry ==
            [ timestamp  |-> Get(entry, "timestamp", None),
              role       |-> role,
              content    |-> Truncate(text_content),
              model      |-> IF role = "assistant"
                             THEN Get(message, "model", None) ELSE None,
              tools_used |-> IF role = "assistant" /\ isList
                             THEN ToolNameList(content.list) ELSE <<>> ]
    IN  IF text_content.n > 0
        THEN [sd EXCEPT !.conversations =
                 [list |-> Append(@.list, conversation_entry)]]
        ELSE sd

\* lines 179 and 183
MaybeExtract(entry, sd, inc, role) ==
    IF inc /\ "list" \in DOMAIN sd.conversations
    THEN ExtractConversation(entry, sd, role)
    ELSE sd

\* _process_log_entry on a decoded JSON object: the updated session_data,
\* or Raised when an exception leaves the handler
ProcessLogEntry(entry, sd, inc) ==
    LET sd3 == WithGitBranch(entry, WithProject(entry, WithTimestamp(entry, sd)))
        entry_type == Get(entry, "type", "")
    IN  IF entry_type = "assistant"
        THEN IF AssistantRaises(entry) THEN Raised
             ELSE MaybeExtract(entry, ProcessAssistantEntry(entry, sd3),
                               inc, "assistant")
        ELSE IF entry_type = "user"
        THEN MaybeExtract(entry, ProcessUserEntry(entry, sd3), inc, "user")
        ELSE IF entry_type = "system"
        THEN ProcessSystemEntry(entry, sd3)
        ELSE sd3

----------------------------------------------------------------------------
(* _parse_session_file *)

\* json.loads(line.strip()) raises JSONDecodeError: malformed or blank text
Undecodable(line) == line.json \in {"invalid", "blank"}

\* one iteration of the loop of lines 135-140: the session_data after it,
\* or Raised when an exception other than JSONDecodeError leaves the try.
\* A JSON value that is not an object fails in `"timestamp" in entry` or in
\* entry.get (TypeError / AttributeError).
ProcessLine(line, sd, inc) ==
    IF Undecodable(line) THEN sd
    ELSE IF line.json = "value" THEN Raised
    ELSE ProcessLogEntry(line.entry, sd, inc)

\* tools kept per occurrence instead of once: every name listed twice
SetToList_Repeats(S) ==
    LET RECURSIVE L(_)
        L(T) == IF T = {} THEN <<>>
                ELSE LET x == CHOOSE y \in T : TRUE IN <<x, x>> \o L(T \ {x})
    IN  L(S)

\* list(set): the elements in some order that is a function of the set
RECURSIVE SetToList(_)
SetToList(S) ==
    IF S = {} THEN <<>>
    ELSE LET x == CHOOSE y \in S : TRUE IN <<x>> \o SetToList(S \ {x})

\* FinishSession with the duration taken between the earlier and the later
\* of the two timestamps
FinishSession_MinMax(sd) ==
    LET timed == ~Falsy(sd.start_time) /\ ~Falsy(sd.end_time)
        valid == sd.start_time \in IsoTimes /\ sd.end_time \in IsoTimes
        diff == Seconds(sd.end_time) - Seconds(sd.start_time)
        dur == IF timed THEN (IF diff < 0 THEN 0 - diff ELSE diff)
               ELSE sd.duration_seconds
    IN  IF timed /\ ~valid THEN Raised
        ELSE [sd EXCEPT !.duration_seconds = dur,
                        !.tools_used = SetToList(@)]

\* lines 142-151: duration and the frozen tool list; fromisoformat raises
\* ValueError on a string that is no ISO-8601 timestamp
FinishSession(sd) ==
    LET timed == ~Falsy(sd.start_time) /\ ~Falsy(sd.end_time)
        valid == sd.start_time \in IsoTimes /\ sd.end_time \in IsoTimes
        dur == IF timed THEN Seconds(sd.end_time) - Seconds(sd.start_time)
               ELSE sd.duration_seconds
    IN  IF timed /\ ~valid THEN Raised
        ELSE [sd EXCEPT !.duration_seconds = dur,
                        !.tools_used = SetToList(@)]

RECURSIVE FoldLines(_, _, _)
FoldLines(lines, sd, inc) ==
    IF lines = <<>> THEN sd
    ELSE LET r == ProcessLine(Head(lines), sd, inc)
         IN  IF IsRaised(r) THEN Raised ELSE FoldLines(Tail(lines), r, inc)

\* _parse_session_file whose except clause returns the session built so far
\* (an empty one when the file could not be read) instead of None
ParseSessionFile_KeepsPartial(f, stem, inc) ==
    IF f.readable /\ f.lines = <<>> THEN NoSession
    ELSE LET sd == FoldLines(f.lines, NewSession(stem, inc), inc)
             r == IF IsRaised(sd) THEN Raised ELSE FinishSession(sd)
         IN  IF ~f.readable \/ IsRaised(r)
             THEN [NewSession(stem, inc) EXCEPT !.tools_used = <<>>]
             ELSE r

\* the value _parse_session_file returns for a file: a session record, or
\* NoSession for None (no lines, or an exception caught at lines 153-155)
ParseSessionFile(f, stem, inc) ==
    IF ~f.readable THEN NoSession
    ELSE IF f.lines = <<>> THEN NoSession
    ELSE LET sd == FoldLines(f.lines, NewSession(stem, inc), inc)
             r == IF IsRaised(sd) THEN Raised ELSE FinishSession(sd)
         IN  IF IsRaised(r) THEN NoSession ELSE r

----------------------------------------------------------------------------
(* Python dicts that are iterated: the sequence of their items              *)
(* [k |-> key, v |-> value] in insertion order                              *)

Keys(d) == {d[i].k : i \in DOMAIN d}
Has(d, key) == key \in Keys(d)
Lookup(d, key) == d[CHOOSE i \in DOMAIN d : d[i].k = key].v

\* d[key] = value: a key already there keeps its place
Put(d, key, value) ==
    IF Has(d, key)
    THEN LET i == CHOOSE j \in DOMAIN d : d[j].k = key
         IN  SubSeq(d, 1, i - 1) \o <<[k |-> key, v |-> value]>>
             \o SubSeq(d, i + 1, Len(d))
    ELSE Append(d, [k |-> key, v |-> value])

\* d[key] += n on a defaultdict(int)
Incr(d, key, n) == Put(d, key, (IF Has(d, key) THEN Lookup(d, key) ELSE 0) + n)

\* d.update(other): the items of other put one after the other.  The items
\* are taken half by half, the first half being done (its result is looked
\* at) before the second is begun, which keeps the evaluation shallow.
RECURSIVE Update(_, _)
Update(d, other) ==
    IF other = <<>> THEN d
    ELSE IF Len(other) = 1 THEN Put(d, other[1].k, other[1].v)
    ELSE LET half == Len(other) \div 2
             first == Update(d, SubSeq(other, 1, half))
         IN  IF first = <<>> THEN first
             ELSE Update(first, SubSeq(other, half + 1, Len(other)))

\* for key, count in other.items(): d[key] += count
RECURSIVE AddCounts(_, _)
AddCounts(d, other) ==
    IF other = <<>> THEN d
    ELSE IF Len(other) = 1 THEN Incr(d, other[1].k, other[1].v)
    ELSE LET half == Len(other) \div 2
             first == AddCounts(d, SubSeq(other, 1, half))
         IN  IF first = <<>> THEN first
             ELSE AddCounts(first, SubSeq(other, half + 1, Len(other)))

\* for key in keys: d[key] += 1
RECURSIVE CountEach(_, _)
CountEach(d, keys) ==
    IF keys = <<>> THEN d
    ELSE CountEach(Incr(d, Head(keys), 1), Tail(keys))

\* sum(d.values())
RECURSIVE SumValues(_)
SumValues(d) == IF d = <<>> THEN 0 ELSE Head(d).v + SumValues(Tail(d))

----------------------------------------------------------------------------
(* _parse_project_logs *)

\* the four counters of a added to those of b
AddTokens(a, b) ==
    [ input          |-> a["input"] + b["input"],
      output         |-> a["output"] + b["output"],
      cache_read     |-> a["cache_read"] + b["cache_read"],
      cache_creation |-> a["cache_creation"] + b["cache_creation"] ]

NewProjectData ==
    [ sessions     |-> <<>>,
      tool_usage   |-> <<>>,
      models_used  |-> <<>>,
      total_tokens |-> [t \in TokenTypes |-> 0],
      error_count  |-> 0 ]

\* lines 91-107: the body of the loop for the value _parse_session_file
\* returned; None is falsy and a session record is a non-empty dict
FoldSession(pd, session_id, sd) ==
    IF IsNoSession(sd) THEN pd
    ELSE [ sessions     |-> Put(pd.sessions, session_id, sd),
           tool_usage   |-> CountEach(pd.tool_usage, sd.tools_used),
           models_used  |-> IF Falsy(sd.model) THEN pd.models_used
                            ELSE Incr(pd.models_used, sd.model, 1),
           total_tokens |-> AddTokens(pd.total_tokens, sd.token_usage),
           error_count  |-> pd.error_count + Len(sd.errors) ]

----------------------------------------------------------------------------
(* _calculate_aggregate_stats.  A number rounded to 2 decimals is held as   *)
(* the integer number of its hundredths.                                    *)

\* truncation to 2 decimals instead of rounding
Round2_Truncates(num, den) == (100 * num) \div den

\* round(num / den, 2) in hundredths, den > 0: nearest, ties to even
Round2(num, den) ==
    LET n == 100 * num
        q == n \div den
        r == n % den
    IN  IF 2 * r < den THEN q
        ELSE IF 2 * r > den THEN q + 1
        ELSE IF q % 2 = 0 THEN q ELSE q + 1

SecondsPerHour == 3600
SecondsPerMinute == 60
RateCap == 10000
TopTools == 10

\* ErrorRate without the cap at 100
ErrorRate_NoCap(total_errors, total_tool_calls) ==
    IF total_tool_calls > 0
    THEN Round2(total_errors * 100, total_tool_calls)
    ELSE 0

\* lines 328-332
ErrorRate(total_errors, total_tool_calls) ==
    IF total_tool_calls > 0
    THEN LET raw == Round2(total_errors * 100, total_tool_calls)
         IN  IF raw > RateCap THEN RateCap ELSE raw
    ELSE 0

\* A sort key that ranks the smaller counts first
SortKey_Ascending(item) == 0 - item.v

\* key=lambda x: x[1], the count of a (name, count) item
SortKey(item) == item.v

\* sorted(items, key=count, reverse=True): stable, larger counts first
RECURSIVE InsertByCount(_, _)
InsertByCount(sorted, item) ==
    IF sorted = <<>> THEN <<item>>
    ELSE IF SortKey(Head(sorted)) >= SortKey(item)
    THEN <<Head(sorted)>> \o InsertByCount(Tail(sorted), item)
    ELSE <<item>> \o sorted

RECURSIVE SortByCount(_)
SortByCount(d) ==
    IF d = <<>> THEN <<>>
    ELSE InsertByCount(SortByCount(SubSeq(d, 1, Len(d) - 1)), d[Len(d)])

Take(s, n) == SubSeq(s, 1, IF Len(s) < n THEN Len(s) ELSE n)

\* n[lo] + ... + n[hi], the two halves of the range summed in turn
RECURSIVE SumRange(_, _, _)
SumRange(n, lo, hi) ==
    IF lo > hi THEN 0
    ELSE IF lo = hi THEN n[lo]
    ELSE SumRange(n, lo, (lo + hi) \div 2)
         + SumRange(n, (lo + hi) \div 2 + 1, hi)

SumTokens(sessions, t) ==
    SumRange([i \in DOMAIN sessions |-> sessions[i].v.token_usage[t]],
             1, Len(sessions))

SumErrors(sessions) ==
    SumRange([i \in DOMAIN sessions |-> Len(sessions[i].v.errors)],
             1, Len(sessions))

SumDuration(sessions) ==
    SumRange([i \in DOMAIN sessions |-> sessions[i].v.duration_seconds],
             1, Len(sessions))

CalculateAggregateStats(data) ==
    LET total_sessions == Len(data.sessions)
        total_duration == SumDuration(data.sessions)
        total_tool_calls == SumValues(data.tool_usage)
        total_errors == SumErrors(data.sessions)
    IN  [ total_sessions   |-> total_sessions,
          total_projects   |-> Len(data.projects),
          total_tokens     |-> [t \in TokenTypes |-> SumTokens(data.sessions, t)],
          total_errors     |-> total_errors,
          total_duration_hours |->
              IF total_sessions > 0
              THEN Round2(total_duration, SecondsPerHour) ELSE 0,
          average_session_duration_minutes |->
              IF total_sessions > 0
              THEN Round2(total_duration, total_sessions * SecondsPerMinute)
              ELSE 0,
          most_used_tools  |-> Take(SortByCount(data.tool_usage), TopTools),
          most_used_models |-> SortByCount(data.models_used),
          error_rate       |->
              IF total_sessions > 0
              THEN ErrorRate(total_errors, total_tool_calls) ELSE 0 ]

----------------------------------------------------------------------------
(* parse_all_projects *)

NewAllData ==
    [ sessions        |-> <<>>,
      aggregate_stats |-> <<>>,
      projects        |-> <<>>,
      tool_usage      |-> <<>>,
      models_used     |-> <<>>,
      daily_usage     |-> <<>> ]

\* lines 57-69
MergeProject(data, project_name, pd) ==
    IF pd.sessions = <<>> THEN data
    ELSE [data EXCEPT
            !.projects = Put(@, project_name, pd),
            !.sessions = Update(@, pd.sessions),
            !.tool_usage = AddCounts(@, pd.tool_usage),
            !.models_used = AddCounts(@, pd.models_used)]

----------------------------------------------------------------------------
(* export_for_arena.  Scores and rates are in hundredths, like error_rate.  *)

SessionsFirst == 1
SessionsStarted == 10
SessionsPower == 100
PrecisionRate == 500
ToolsMaster == 10
DayHours == 2400
FullScore == 10000
SampleSize == 50

\* the thresholds of lines 395-406 with > in place of >=
Achievements_StrictThreshold(data) ==
    LET stats == data.aggregate_stats
        flag(cond, name) == IF cond THEN <<name>> ELSE <<>>
    IN  flag(stats.total_sessions > SessionsFirst, "first_session")
        \o flag(stats.total_sessions > SessionsStarted, "getting_started")
        \o flag(stats.total_sessions > SessionsPower, "power_user")
        \o flag(stats.error_rate < PrecisionRate, "precision_coder")
        \o flag(Len(data.tool_usage) > ToolsMaster, "tool_master")
        \o flag(stats.total_duration_hours > DayHours, "day_warrior")

\* lines 393-408: the flags appended, in the order of the tests
Achievements(data) ==
    LET stats == data.aggregate_stats
        flag(cond, name) == IF cond THEN <<name>> ELSE <<>>
    IN  flag(stats.total_sessions >= SessionsFirst, "first_session")
        \o flag(stats.total_sessions >= SessionsStarted, "getting_started")
        \o flag(stats.total_sessions >= SessionsPower, "power_user")
        \o flag(stats.error_rate < PrecisionRate, "precision_coder")
        \o flag(Len(data.tool_usage) >= ToolsMaster, "tool_master")
        \o flag(stats.total_duration_hours >= DayHours, "day_warrior")

\* sum(session["token_usage"].values())
SessionTokens(session) ==
    session.token_usage["input"] + session.token_usage["output"]
    + session.token_usage["cache_read"] + session.token_usage["cache_creation"]

\* lines 378-382 for one session: the two defaultdicts, as one dict
\* date -> {sessions, tokens}
CountDay(daily, session) ==
    LET date == DateOf(session.start_time)
        old == IF Has(daily, date) THEN Lookup(daily, date)
               ELSE [sessions |-> 0, tokens |-> 0]
    IN  IF Falsy(session.start_time) THEN daily
        ELSE Put(daily, date,
                 [sessions |-> old.sessions + 1,
                  tokens |-> old.tokens + SessionTokens(session)])

\* lines 375-382: the loop, over the sessions lo..hi in their order
RECURSIVE DailyCounts(_, _, _, _)
DailyCounts(daily, sessions, lo, hi) ==
    IF lo > hi THEN daily
    ELSE IF lo = hi THEN CountDay(daily, sessions[lo].v)
    ELSE LET mid == (lo + hi) \div 2
             first == DailyCounts(daily, sessions, lo, mid)
         IN  IF Len(first) > hi THEN first
             ELSE DailyCounts(first, sessions, mid + 1, hi)

\* sorted(keys): the items of a dict in ascending order of their keys
RECURSIVE SortByKey(_)
SortByKey(d) ==
    IF d = <<>> THEN <<>>
    ELSE LET i == CHOOSE j \in DOMAIN d :
                      \A m \in DOMAIN d : StrRank(d[j].k) <= StrRank(d[m].k)
         IN  <<d[i]>> \o SortByKey(SubSeq(d, 1, i - 1) \o SubSeq(d, i + 1, Len(d)))

\* lines 384-390
DailyActivity(sessions) ==
    SortByKey(DailyCounts(<<>>, sessions, 1, Len(sessions)))

\* lines 414-424: the turns of one session, each with the session's project
SessionTurns(session) ==
    LET convs == IF "list" \in DOMAIN session.conversations
                 THEN session.conversations.list ELSE <<>>
    IN  [i \in 1..Len(convs) |->
            [ timestamp  |-> convs[i].timestamp,
              role       |-> convs[i].role,
              content    |-> convs[i].content,
              project    |-> session.project,
              tools_used |-> convs[i].tools_used ]]

\* lines 412-424: the turns of the sessions lo..hi, in their order
RECURSIVE PoolRange(_, _, _)
PoolRange(sessions, lo, hi) ==
    IF lo > hi THEN <<>>
    ELSE IF lo = hi THEN SessionTurns(sessions[lo].v) \o <<>>
    ELSE PoolRange(sessions, lo, (lo + hi) \div 2)
         \o PoolRange(sessions, (lo + hi) \div 2 + 1, hi)

PoolConversations(sessions) == PoolRange(sessions, 1, Len(sessions))

\* line 427 raises TypeError: the sort compares a None timestamp with
\* another key (the key is x.get("timestamp", ""), and the field is there)
SortRaises(pool) ==
    Len(pool) >= 2 /\ \E i \in DOMAIN pool : pool[i].timestamp = None

\* the turns whose timestamp has rank r or less, larger ranks first, turns
\* of one rank in their order in pool
RECURSIVE DescFrom(_, _)
DescFrom(pool, r) ==
    IF r < 0 THEN <<>>
    ELSE SelectSeq(pool, LAMBDA c : StrRank(c.timestamp) = r)
         \o DescFrom(pool, r - 1)

\* list.sort(key=timestamp, reverse=True): stable, larger strings first
SortByTimestampDesc(pool) ==
    IF Len(pool) < 2 THEN pool ELSE DescFrom(pool, StrRank(BadTs))

\* tool_master_score as the number of tool uses instead of distinct tools
ToolMasterScore_CountsUses(data) == SumValues(data.tool_usage)

\* line 367
ToolMasterScore(data) == Len(data.tool_usage)

\* lines 363-369
LeaderboardStats(data) ==
    LET stats == data.aggregate_stats
    IN  [ precisionist_score |->
              IF FullScore - stats.error_rate > 0
              THEN FullScore - stats.error_rate ELSE 0,
          speed_demon_score  |-> 0,
          night_owl_score    |-> 0,
          tool_master_score  |-> ToolMasterScore(data),
          marathon_score     |-> stats.total_duration_hours ]

\* export_for_arena raises: KeyError on an aggregate_stats without fields,
\* or TypeError in the sort of the pooled turns
ExportRaises(data, inc) ==
    \/ "total_sessions" \notin DOMAIN data.aggregate_stats
    \/ inc /\ SortRaises(PoolConversations(data.sessions))

\* the dict export_for_arena returns
ExportForArena(data, inc) ==
    LET stats == data.aggregate_stats
        pool == PoolConversations(data.sessions)
        arena ==
            [ user_stats |->
                  [ total_sessions    |-> stats.total_sessions,
                    total_tokens_used |-> stats.total_tokens["input"]
                                          + stats.total_tokens["output"]
                                          + stats.total_tokens["cache_read"]
                                          + stats.total_tokens["cache_creation"],
                    total_hours       |-> stats.total_duration_hours,
                    error_rate        |-> stats.error_rate,
                    projects_count    |-> stats.total_projects ],
              tool_usage             |-> data.tool_usage,
              daily_activity         |-> DailyActivity(data.sessions),
              achievements           |-> Achievements(data),
              leaderboard_stats      |-> LeaderboardStats(data),
              conversations_included |-> inc,
              conversation_samples   |-> <<>> ]
    IN  IF inc
        THEN [arena EXCEPT !.conversation_samples =
                 Take(SortByTimestampDesc(pool), SampleSize)]
             @@ [total_conversations |-> Len(pool)]
        ELSE arena

----------------------------------------------------------------------------
(* calculate_leaderboard_scores (scripts/import_claude_logs.py) *)

QuickSeconds == 300
NightFrom == 22
NightUntil == 4

\* IsQuick without the test on errors
IsQuick_IgnoresErrors(session) == session.duration_seconds < QuickSeconds

\* line 86
IsQuick(session) ==
    session.duration_seconds < QuickSeconds /\ Len(session.errors) = 0

\* lines 90-93
IsNight(session) ==
    /\ ~Falsy(session.start_time)
    /\ \/ Hour(session.start_time) >= NightFrom
       \/ Hour(session.start_time) < NightUntil

\* line 91 raises ValueError: a start_time that is no ISO-8601 timestamp
ScoresRaise(sessions) ==
    \E i \in DOMAIN sessions :
        /\ ~Falsy(sessions[i].v.start_time)
        /\ sessions[i].v.start_time \notin IsoTimes

CalculateLeaderboardScores(sessions, scores) ==
    LET quick_sessions ==
            Cardinality({i \in DOMAIN sessions : IsQuick(sessions[i].v)})
        night_sessions ==
            Cardinality({i \in DOMAIN sessions : IsNight(sessions[i].v)})
        total_sessions == Len(sessions)
    IN  IF total_sessions > 0
        THEN [scores EXCEPT
                 !.speed_demon_score =
                     Round2(quick_sessions * 100, total_sessions),
                 !.night_owl_score =
                     Round2(night_sessions * 100, total_sessions)]
        ELSE scores

----------------------------------------------------------------------------
(* The log lines of the model *)

LongText == [s |-> "a long answer", n |-> 1500]
ShortText == [s |-> "question", n |-> 8]

BadLine == [json |-> "invalid"]
BlankLine == [json |-> "blank"]
ValueLine == [json |-> "value"]
Obj(e) == [json |-> "object", entry |-> e]

\* assistant: model, two of the four usage fields, Read used twice, a text
AsstRead ==
    [type |-> "assistant", timestamp |-> T1,
     cwd |-> <<"/", "Users", "/", "me", "/", "app">>,
     message |-> [model |-> "opus",
                  usage |-> [input_tokens |-> 1, output_tokens |-> 2],
                  content |-> [list |-> <<
                      [type |-> "tool_use", name |-> "Read"],
                      [type |-> "text", text |-> LongText],
                      [type |-> "tool_use", name |-> "Read"]>>]]]

\* assistant: another model, all four usage fields, Edit
AsstEdit ==
    [type |-> "assistant", timestamp |-> T2,
     message |-> [model |-> "sonnet",
                  usage |-> [input_tokens |-> 3, output_tokens |-> 1,
                             cache_read_input_tokens |-> 2,
                             cache_creation_input_tokens |-> 1],
                  content |-> [list |-> <<
                      [type |-> "tool_use", name |-> "Edit"]>>]]]

\* assistant whose content is a plain string
AsstString ==
    [type |-> "assistant",
     message |-> [content |-> [str |-> ShortText]]]

\* assistant with a null token count
AsstNullTokens ==
    [type |-> "assistant", timestamp |-> T1,
     message |-> [usage |-> [input_tokens |-> Null, output_tokens |-> 1]]]

\* user: one failed tool_result item and an error-marked toolUseResult
UserErrors ==
    [type |-> "user", timestamp |-> T3,
     message |-> [content |-> [list |-> <<
                     [type |-> "tool_result", is_error |-> TRUE,
                      content |-> "boom"],
                     [type |-> "tool_result", is_error |-> FALSE,
                      content |-> "fine"]>>]],
     toolUseResult |-> [str |-> ErrorResult]]

\* user with plain-string content and an empty timestamp
UserString ==
    [type |-> "user", timestamp |-> "",
     message |-> [content |-> [str |-> ShortText]]]

\* user, timestamped earlier than the others, no content
UserEarly == [type |-> "user", timestamp |-> T1, gitBranch |-> "main"]

SystemEvent == [type |-> "system", timestamp |-> T2]

\* unrecognized type, no timestamp
SummaryEvent == [type |-> "summary"]

\* a timestamp that is no ISO-8601 string
BadTsEvent == [type |-> "system", timestamp |-> BadTs]

\* user with plain-string content and a timestamp at UTC+05:00
UserOffset ==
    [type |-> "user", timestamp |-> T4,
     message |-> [content |-> [str |-> ShortText]]]

\* user with plain-string content and no timestamp field
UserUntimed ==
    [type |-> "user", message |-> [content |-> [str |-> ShortText]]]

\* user: a text item after a tool result, and a toolUseResult string
\* without the error marker
UserResultOk ==
    [type |-> "user", timestamp |-> T2,
     message |-> [content |-> [list |-> <<
                     [type |-> "tool_result", content |-> "fine"],
                     [type |-> "text", text |-> LongText]>>]],
     toolUseResult |-> [str |-> "done"]]

Entries ==
    {AsstRead, AsstEdit, AsstString, AsstNullTokens, UserErrors, UserString,
     UserEarly, SystemEvent, SummaryEvent, BadTsEvent, UserOffset,
     UserResultOk}

Lines == {BadLine, BlankLine, ValueLine} \cup {Obj(e) : e \in Entries}

MaxLines == 3

SeqsUpTo(S, n) == UNION {[1..k -> S] : k \in 0..n}

\* a session file: unreadable (open or read fails), or its lines
Files ==
    {[readable |-> FALSE, lines |-> <<>>]}
    \cup {[readable |-> TRUE, lines |-> l] : l \in SeqsUpTo(Lines, MaxLines)}

Stem == "s1"

----------------------------------------------------------------------------
(* SpecFile: _parse_session_file on one file, one loop iteration per step *)

Pending == [pending |-> TRUE]

\* the pipeline variables while only _parse_session_file runs
PipeIdle ==
    /\ root_exists = TRUE
    /\ tree = <<>>
    /\ pc = "idle"
    /\ entries_left = {}
    /\ project_dir = <<>>
    /\ files_left = {}
    /\ project_data = Pending
    /\ all_data = Pending
    /\ apc = "idle"
    /\ arena_data = Pending

\* the variables of _extract_project_name alone and of main while neither
\* runs
NameIdle ==
    /\ name_arg = <<>>
    /\ name_result = Pending

MainIdle ==
    /\ mpc = "idle"
    /\ args = Pending
    /\ response = None
    /\ calls = <<>>
    /\ saved = FALSE
    /\ exit_code = Null

InitFile ==
    /\ include_conversations \in BOOLEAN
    /\ file \in Files
    /\ fpc = "open"
    /\ idx = 0
    /\ session_data = Pending
    /\ result = Pending
    /\ PipeIdle
    /\ NameIdle
    /\ MainIdle

\* lines 113-115: open() or readlines() raises, caught at line 153
OpenFails ==
    /\ fpc = "open"
    /\ ~file.readable
    /\ fpc' = "returned"
    /\ result' = NoSession
    /\ UNCHANGED <<include_conversations, file, idx, session_data, pipeVars, arenaVars,
                   nameVars, mainVars>>

\* lines 117-118
EmptyFile ==
    /\ fpc = "open"
    /\ file.readable
    /\ file.lines = <<>>
    /\ fpc' = "returned"
    /\ result' = NoSession
    /\ UNCHANGED <<include_conversations, file, idx, session_data, pipeVars, arenaVars,
                   nameVars, mainVars>>

\* lines 120-133
CreateSession ==
    /\ fpc = "open"
    /\ file.readable
    /\ file.lines # <<>>
    /\ fpc' = "loop"
    /\ session_data' = NewSession(Stem, include_conversations)
    /\ UNCHANGED <<include_conversations, file, idx, result, pipeVars, arenaVars,
                   nameVars, mainVars>>

\* lines 135-140, an iteration that completes (also by `continue`)
LoopLine ==
    /\ fpc = "loop"
    /\ idx < Len(file.lines)
    /\ LET r == ProcessLine(file.lines[idx + 1], session_data,
                            include_conversations)
       IN  /\ ~IsRaised(r)
           /\ session_data' = r
    /\ idx' = idx + 1
    /\ UNCHANGED <<include_conversations, file, fpc, result, pipeVars, arenaVars,
                   nameVars, mainVars>>

\* lines 135-140, an iteration that raises; caught at lines 153-155
LoopRaises ==
    /\ fpc = "loop"
    /\ idx < Len(file.lines)
    /\ IsRaised(ProcessLine(file.lines[idx + 1], session_data,
                            include_conversations))
    /\ fpc' = "returned"
    /\ result' = NoSession
    /\ UNCHANGED <<include_conversations, file, idx, session_data, pipeVars, arenaVars,
                   nameVars, mainVars>>

\* lines 142-151, and 153-155 when the duration computation raises
Return ==
    /\ fpc = "loop"
    /\ idx = Len(file.lines)
    /\ LET r == FinishSession(session_data)
       IN  result' = IF IsRaised(r) THEN NoSession ELSE r
    /\ fpc' = "returned"
    /\ UNCHANGED <<include_conversations, file, idx, session_data, pipeVars, arenaVars,
                   nameVars, mainVars>>

NextFile ==
    \/ OpenFails
    \/ EmptyFile
    \/ CreateSession
    \/ LoopLine
    \/ LoopRaises
    \/ Return

----------------------------------------------------------------------------
(* Spec: parse_all_projects on a directory tree *)

\* the session files a project directory of the model may hold
UnreadableFile == [readable |-> FALSE, lines |-> <<>>]
OnlyBadFile == [readable |-> TRUE, lines |-> <<BadLine>>]
ReadFile == [readable |-> TRUE, lines |-> <<Obj(AsstRead), BadLine>>]
EditFile ==
    [readable |-> TRUE,
     lines |-> <<Obj(AsstRead), Obj(AsstEdit), Obj(UserErrors)>>]
ErrorsFile == [readable |-> TRUE, lines |-> <<Obj(UserErrors)>>]
DroppedFile == [readable |-> TRUE, lines |-> <<Obj(AsstEdit), ValueLine>>]
UntimedFile == [readable |-> TRUE, lines |-> <<Obj(UserUntimed)>>]
StringFile == [readable |-> TRUE, lines |-> <<Obj(AsstString)>>]

TreeFiles ==
    {UnreadableFile, OnlyBadFile, ReadFile, EditFile, ErrorsFile, DroppedFile,
     UntimedFile, StringFile}

Stems == {"s1", "s2"}

\* names of the entries of the root directory
DirUsers == <<"-", "Users", "-", "me", "-", "project", "-", "app">>
DirApp == <<"app">>
DirWeb == <<"web", "-", "ui">>
RootNames == {DirUsers, DirApp, DirWeb}

MaxDirs == 2
MaxFiles == 2

\* the content of a file that has not been opened yet
Unread == [unread |-> TRUE]

\* a root entry: a plain file, or a directory with its *.jsonl files by
\* stem; the content of a file is drawn when the file is parsed
NotADir == [is_dir |-> FALSE, files |-> <<>>]
RootEntries ==
    {NotADir} \cup
    {[is_dir |-> TRUE, files |-> [st \in S |-> Unread]] : S \in SUBSET Stems}

RECURSIVE CountFiles(_, _)
CountFiles(t, names) ==
    IF names = {} THEN 0
    ELSE LET d == CHOOSE x \in names : TRUE
         IN  Cardinality(DOMAIN t[d].files) + CountFiles(t, names \ {d})

Trees ==
    {t \in UNION {[D -> RootEntries] :
                     D \in {E \in SUBSET RootNames : Cardinality(E) <= MaxDirs}} :
        CountFiles(t, DOMAIN t) <= MaxFiles}

EmptyTree == [d \in {} |-> NotADir]

Init ==
    /\ include_conversations \in BOOLEAN
    /\ root_exists \in BOOLEAN
    /\ tree \in (IF root_exists THEN Trees ELSE {EmptyTree})
    /\ pc = "start"
    /\ entries_left = {}
    /\ project_dir = <<>>
    /\ files_left = {}
    /\ project_data = Pending
    /\ all_data = NewAllData
    /\ file = UnreadableFile
    /\ fpc = "idle"
    /\ idx = 0
    /\ session_data = Pending
    /\ result = Pending
    /\ apc = "idle"
    /\ arena_data = Pending
    /\ NameIdle
    /\ MainIdle

\* lines 47-49: the root is missing; all_data is returned as created
RootMissing ==
    /\ pc = "start"
    /\ ~root_exists
    /\ pc' = "done"
    /\ UNCHANGED <<include_conversations, root_exists, tree, entries_left,
                   project_dir, files_left, project_data, all_data, fileVars, arenaVars,
                   nameVars, mainVars>>

\* line 52: iterdir() lists the root
ListRoot ==
    /\ pc = "start"
    /\ root_exists
    /\ entries_left' = DOMAIN tree
    /\ pc' = "iter"
    /\ UNCHANGED <<include_conversations, root_exists, tree, project_dir,
                   files_left, project_data, all_data, fileVars, arenaVars,
                   nameVars, mainVars>>

\* lines 52-53: the next entry, in any order, is no directory
SkipEntry ==
    /\ pc = "iter"
    /\ \E d \in entries_left :
        /\ ~tree[d].is_dir
        /\ entries_left' = entries_left \ {d}
    /\ UNCHANGED <<include_conversations, root_exists, tree, pc, project_dir,
                   files_left, project_data, all_data, fileVars, arenaVars,
                   nameVars, mainVars>>

\* lines 52-55 and 78-87: the next entry, in any order, is a directory;
\* _parse_project_logs starts on it
EnterProject ==
    /\ pc = "iter"
    /\ \E d \in entries_left :
        /\ tree[d].is_dir
        /\ entries_left' = entries_left \ {d}
        /\ project_dir' = d
        /\ files_left' = DOMAIN tree[d].files
    /\ project_data' = NewProjectData
    /\ pc' = "project"
    /\ UNCHANGED <<include_conversations, root_exists, tree, all_data,
                   fileVars, arenaVars,
                   nameVars, mainVars>>

\* lines 87-107: one iteration of the loop over glob("*.jsonl"), any order,
\* on a file of any content
ParseFile ==
    /\ pc = "project"
    /\ \E stem \in files_left, f \in TreeFiles :
        /\ files_left' = files_left \ {stem}
        /\ tree' = [tree EXCEPT ![project_dir].files[stem] = f]
        /\ project_data' =
              FoldSession(project_data, stem,
                          ParseSessionFile(f, stem, include_conversations))
    /\ UNCHANGED <<include_conversations, root_exists, pc, entries_left,
                   project_dir, all_data, fileVars, arenaVars,
                   nameVars, mainVars>>

\* lines 109 and 54-69: _parse_project_logs returns, its data is merged
FinishProject ==
    /\ pc = "project"
    /\ files_left = {}
    /\ all_data' = MergeProject(all_data, ExtractProjectName(project_dir),
                                project_data)
    /\ pc' = "iter"
    /\ UNCHANGED <<include_conversations, root_exists, tree, entries_left,
                   project_dir, files_left, project_data, fileVars, arenaVars,
                   nameVars, mainVars>>

\* lines 71-74
Aggregate ==
    /\ pc = "iter"
    /\ entries_left = {}
    /\ all_data' = [all_data EXCEPT
                       !.aggregate_stats = CalculateAggregateStats(all_data)]
    /\ pc' = "done"
    /\ UNCHANGED <<include_conversations, root_exists, tree, entries_left,
                   project_dir, files_left, project_data, fileVars, arenaVars,
                   nameVars, mainVars>>

Next ==
    \/ RootMissing
    \/ ListRoot
    \/ SkipEntry
    \/ EnterProject
    \/ ParseFile
    \/ FinishProject
    \/ Aggregate

\* parse_all_projects as a function of the tree, the entries and files
\* taken in one fixed order
RECURSIVE RunFiles(_, _, _, _)
RunFiles(files, stems, pd, inc) ==
    IF stems = {} THEN pd
    ELSE LET stem == CHOOSE x \in stems : TRUE
         IN  RunFiles(files, stems \ {stem},
                      FoldSession(pd, stem,
                                  ParseSessionFile(files[stem], stem, inc)),
                      inc)

RECURSIVE RunEntries(_, _, _, _)
RunEntries(t, names, data, inc) ==
    IF names = {} THEN data
    ELSE LET d == CHOOSE x \in names : TRUE
             pd == RunFiles(t[d].files, DOMAIN t[d].files, NewProjectData, inc)
         IN  RunEntries(t, names \ {d},
                        IF t[d].is_dir
                        THEN MergeProject(data, ExtractProjectName(d), pd)
                        ELSE data,
                        inc)

ParseAllProjects(t, inc) ==
    LET data == RunEntries(t, DOMAIN t, NewAllData, inc)
    IN  [data EXCEPT !.aggregate_stats = CalculateAggregateStats(data)]

----------------------------------------------------------------------------
(* SpecArena: the end of parse_all_projects on a root with one project      *)
(* directory of many session files, then export_for_arena and               *)
(* calculate_leaderboard_scores on what it returns                          *)

ChatFile == [readable |-> TRUE, lines |-> <<Obj(AsstRead), Obj(AsstEdit)>>]
OffsetFile == [readable |-> TRUE, lines |-> <<Obj(UserOffset)>>]
BadStartFile ==
    [readable |-> TRUE, lines |-> <<Obj(BadTsEvent), Obj(UserString)>>]

ArenaFiles ==
    {ReadFile, EditFile, ErrorsFile, ChatFile, OffsetFile, UntimedFile,
     BadStartFile}

ModelNames ==
    <<"m01", "m02", "m03", "m04", "m05", "m06", "m07", "m08", "m09", "m10",
      "m11", "m12", "m13", "m14", "m15">>

FillTools ==
    <<"Bash", "Grep", "Glob", "Write", "Task", "WebFetch", "WebSearch",
      "TodoWrite", "Read", "Edit", "LS", "NotebookEdit">>

FillTimes == <<T1, T2, T3>>

Cycle(s, i) == s[((i - 1) % Len(s)) + 1]

\* the i-th of the plain sessions: one assistant event with a model, a
\* tool, a timestamp and a text
Filler(i) ==
    [type |-> "assistant", timestamp |-> Cycle(FillTimes, i),
     message |-> [model |-> Cycle(ModelNames, i),
                  content |-> [list |-> <<
                      [type |-> "tool_use", name |-> Cycle(FillTools, i)],
                      [type |-> "text", text |-> ShortText]>>]]]

FillerFile(i) == [readable |-> TRUE, lines |-> <<Obj(Filler(i))>>]
FillStem(i) == "f" \o ToString(i)
VariedStem(i) == "v" \o ToString(i)

FewSessions == 8
ManySessions == 98
FillCounts == {0, FewSessions, ManySessions}
MaxVaried == 2

\* the files of the project directory: n plain sessions and the files vs
ArenaDir(n, vs) ==
    [st \in {FillStem(i) : i \in 1..n} \cup {VariedStem(i) : i \in 1..Len(vs)}
        |-> IF \E i \in 1..n : st = FillStem(i)
            THEN FillerFile(CHOOSE i \in 1..n : st = FillStem(i))
            ELSE vs[CHOOSE i \in 1..Len(vs) : st = VariedStem(i)]]

\* _parse_project_logs over the plain sessions lo..hi, in that order
RECURSIVE FoldFillers(_, _, _, _)
FoldFillers(pd, lo, hi, inc) ==
    IF lo > hi THEN pd
    ELSE IF lo = hi
    THEN FoldSession(pd, FillStem(lo),
                     ParseSessionFile(FillerFile(lo), FillStem(lo), inc))
    ELSE LET mid == (lo + hi) \div 2
             first == FoldFillers(pd, lo, mid, inc)
         IN  IF first.sessions = <<>> THEN first
             ELSE FoldFillers(first, mid + 1, hi, inc)

FilledProject ==
    [n \in FillCounts, inc \in BOOLEAN |->
        FoldFillers(NewProjectData, 1, n, inc)]

\* ... and then over the files vs
RECURSIVE FoldVaried(_, _, _, _)
FoldVaried(pd, vs, i, inc) ==
    IF i > Len(vs) THEN pd
    ELSE FoldVaried(FoldSession(pd, VariedStem(i),
                                ParseSessionFile(vs[i], VariedStem(i), inc)),
                    vs, i + 1, inc)

\* lines 52-69 are over: the one project directory has been parsed and merged
InitArena ==
    /\ include_conversations \in BOOLEAN
    /\ root_exists = TRUE
    /\ \E n \in FillCounts, vs \in SeqsUpTo(ArenaFiles, MaxVaried) :
        /\ tree = (DirApp :> [is_dir |-> TRUE, files |-> ArenaDir(n, vs)])
        /\ project_data =
               FoldVaried(FilledProject[n, include_conversations], vs, 1,
                          include_conversations)
    /\ all_data = MergeProject(NewAllData, ExtractProjectName(DirApp),
                               project_data)
    /\ pc = "iter"
    /\ entries_left = {}
    /\ project_dir = DirApp
    /\ files_left = {}
    /\ file = UnreadableFile
    /\ fpc = "idle"
    /\ idx = 0
    /\ session_data = Pending
    /\ result = Pending
    /\ apc = "start"
    /\ arena_data = Pending
    /\ NameIdle
    /\ MainIdle

\* export_for_arena(data, include_conversations) returns
Export ==
    /\ pc = "done"
    /\ apc = "start"
    /\ ~ExportRaises(all_data, include_conversations)
    /\ arena_data' = ExportForArena(all_data, include_conversations)
    /\ apc' = "exported"
    /\ UNCHANGED <<include_conversations, pipeVars, fileVars, nameVars,
                   mainVars>>

\* export_for_arena raises
ExportFails ==
    /\ pc = "done"
    /\ apc = "start"
    /\ ExportRaises(all_data, include_conversations)
    /\ arena_data' = Raised
    /\ apc' = "export_failed"
    /\ UNCHANGED <<include_conversations, pipeVars, fileVars, nameVars,
                   mainVars>>

\* arena_data["leaderboard_stats"] = calculate_leaderboard_scores(...)
Score ==
    /\ apc = "exported"
    /\ ~ScoresRaise(all_data.sessions)
    /\ arena_data' =
           [arena_data EXCEPT !.leaderboard_stats =
               CalculateLeaderboardScores(all_data.sessions, @)]
    /\ apc' = "scored"
    /\ UNCHANGED <<include_conversations, pipeVars, fileVars, nameVars,
                   mainVars>>

\* calculate_leaderboard_scores raises
ScoreFails ==
    /\ apc = "exported"
    /\ ScoresRaise(all_data.sessions)
    /\ arena_data' = Raised
    /\ apc' = "score_failed"
    /\ UNCHANGED <<include_conversations, pipeVars, fileVars, nameVars,
                   mainVars>>

NextArena ==
    \/ Aggregate
    \/ Export
    \/ ExportFails
    \/ Score
    \/ ScoreFails

----------------------------------------------------------------------------
(* SpecName: _extract_project_name on one directory name or cwd *)

\* the two separator characters, the two words the function looks for, and
\* another word
NameTokens == {"-", "/", "Users", "project", "app"}

MaxTokens == 7

Names == SeqsUpTo(NameTokens, MaxTokens)

InitName ==
    /\ include_conversations = FALSE
    /\ file = UnreadableFile
    /\ fpc = "idle"
    /\ idx = 0
    /\ session_data = Pending
    /\ result = Pending
    /\ PipeIdle
    /\ MainIdle
    /\ name_arg \in Names
    /\ name_result = Pending

\* the call returns
ExtractName ==
    /\ name_result = Pending
    /\ name_result' = [name |-> ExtractProjectName(name_arg)]
    /\ UNCHANGED <<include_conversations, fileVars, pipeVars, arenaVars,
                   name_arg, mainVars>>

NextName == ExtractName

----------------------------------------------------------------------------
(* SpecMain: main of scripts/import_claude_logs.py, from the parsed command *)
(* line to the value it returns                                             *)

\* what the user may type at the consent prompt
Answers == {"yes", "YES", "no", "y", ""}

\* str.lower() on the answers of the model
Lower(str) == IF str = "YES" THEN "yes" ELSE str

\* the logs directory holds one project directory with these files
MainDir(files) == (DirApp :> [is_dir |-> TRUE, files |-> files])

\* the logs directories of the model: empty, one session with a turn, two
\* sessions of which one has a turn without timestamp, one session whose
\* start_time is no date, one session with errors
MainTrees ==
    {EmptyTree,
     MainDir("s1" :> ChatFile),
     MainDir("s1" :> ChatFile @@ "s2" :> UntimedFile),
     MainDir("s1" :> BadStartFile),
     MainDir("s1" :> EditFile)}

\* a call of the parser or of the export, with the flag it was given
Call(fn, inc) == [fn |-> fn, include_conversations |-> inc]

InitMain ==
    /\ include_conversations \in BOOLEAN
    /\ args \in [quiet : BOOLEAN, upload : BOOLEAN, token : BOOLEAN]
    /\ root_exists \in BOOLEAN
    /\ tree \in (IF root_exists THEN MainTrees ELSE {EmptyTree})
    /\ mpc = "start"
    /\ response = None
    /\ calls = <<>>
    /\ saved = FALSE
    /\ exit_code = Null
    /\ pc = "idle"
    /\ entries_left = {}
    /\ project_dir = <<>>
    /\ files_left = {}
    /\ project_data = Pending
    /\ all_data = Pending
    /\ apc = "idle"
    /\ arena_data = Pending
    /\ file = UnreadableFile
    /\ fpc = "idle"
    /\ idx = 0
    /\ session_data = Pending
    /\ result = Pending
    /\ NameIdle

\* lines 159-172: the privacy notice is shown and the answer is read; any
\* answer but yes, in any case, clears the flag
AskConsent ==
    /\ mpc = "start"
    /\ include_conversations /\ ~args.quiet
    /\ \E answer \in Answers :
        /\ response' = answer
        /\ include_conversations' = (Lower(answer) = "yes")
    /\ mpc' = "parse"
    /\ UNCHANGED <<fileVars, pipeVars, arenaVars, nameVars, args, calls,
                   saved, exit_code>>

\* line 159 is false: no notice, no prompt
NoPrompt ==
    /\ mpc = "start"
    /\ ~(include_conversations /\ ~args.quiet)
    /\ mpc' = "parse"
    /\ UNCHANGED <<include_conversations, fileVars, pipeVars, arenaVars,
                   nameVars, args, response, calls, saved, exit_code>>

\* lines 176-179: parse_all_projects(include_conversations=...) returns
MainParse ==
    /\ mpc = "parse"
    /\ calls' = Append(calls, Call("parse_all_projects",
                                   include_conversations))
    /\ all_data' = IF root_exists
                   THEN ParseAllProjects(tree, include_conversations)
                   ELSE NewAllData
    /\ mpc' = "parsed"
    /\ UNCHANGED <<include_conversations, fileVars, root_exists, tree, pc,
                   entries_left, project_dir, files_left, project_data,
                   arenaVars, nameVars, args, response, saved, exit_code>>

\* line 181 raises KeyError on the aggregate_stats of a missing root; the
\* except clause of lines 228-230 returns 1
StatsMissing ==
    /\ mpc = "parsed"
    /\ "total_sessions" \notin DOMAIN all_data.aggregate_stats
    /\ exit_code' = 1
    /\ mpc' = "returned"
    /\ UNCHANGED <<include_conversations, fileVars, pipeVars, arenaVars,
                   nameVars, args, response, calls, saved>>

\* lines 181-185
NoSessionsFound ==
    /\ mpc = "parsed"
    /\ "total_sessions" \in DOMAIN all_data.aggregate_stats
    /\ all_data.aggregate_stats.total_sessions = 0
    /\ exit_code' = 1
    /\ mpc' = "returned"
    /\ UNCHANGED <<include_conversations, fileVars, pipeVars, arenaVars,
                   nameVars, args, response, calls, saved>>

\* line 188: export_for_arena(data, include_conversations=...) returns
MainExport ==
    /\ mpc = "parsed"
    /\ "total_sessions" \in DOMAIN all_data.aggregate_stats
    /\ all_data.aggregate_stats.total_sessions # 0
    /\ ~ExportRaises(all_data, include_conversations)
    /\ calls' = Append(calls, Call("export_for_arena", include_conversations))
    /\ arena_data' = ExportForArena(all_data, include_conversations)
    /\ mpc' = "exported"
    /\ UNCHANGED <<include_conversations, fileVars, pipeVars, apc, nameVars,
                   args, response, saved, exit_code>>

\* line 188: the call raises; lines 228-230 return 1
MainExportFails ==
    /\ mpc = "parsed"
    /\ "total_sessions" \in DOMAIN all_data.aggregate_stats
    /\ all_data.aggregate_stats.total_sessions # 0
    /\ ExportRaises(all_data, include_conversations)
    /\ calls' = Append(calls, Call("export_for_arena", include_conversations))
    /\ exit_code' = 1
    /\ mpc' = "returned"
    /\ UNCHANGED <<include_conversations, fileVars, pipeVars, arenaVars,
                   nameVars, args, response, saved>>

\* lines 191-194
MainScore ==
    /\ mpc = "exported"
    /\ ~ScoresRaise(all_data.sessions)
    /\ arena_data' =
           [arena_data EXCEPT !.leaderboard_stats =
               CalculateLeaderboardScores(all_data.sessions, @)]
    /\ mpc' = "scored"
    /\ UNCHANGED <<include_conversations, fileVars, pipeVars, apc, nameVars,
                   args, response, calls, saved, exit_code>>

\* lines 191-194: calculate_leaderboard_scores raises; lines 228-230
MainScoreFails ==
    /\ mpc = "exported"
    /\ ScoresRaise(all_data.sessions)
    /\ exit_code' = 1
    /\ mpc' = "returned"
    /\ UNCHANGED <<include_conversations, fileVars, pipeVars, arenaVars,
                   nameVars, args, response, calls, saved>>

\* lines 196-213: the summary is printed and the export is written
Save ==
    /\ mpc = "scored"
    /\ saved' = TRUE
    /\ mpc' = "saved"
    /\ UNCHANGED <<include_conversations, fileVars, pipeVars, arenaVars,
                   nameVars, args, response, calls, exit_code>>

\* lines 216-219: --upload without --token
UploadWithoutToken ==
    /\ mpc = "saved"
    /\ args.upload /\ ~args.token
    /\ exit_code' = 1
    /\ mpc' = "returned"
    /\ UNCHANGED <<include_conversations, fileVars, pipeVars, arenaVars,
                   nameVars, args, response, calls, saved>>

\* lines 216-232: the upload, which does nothing yet, and the return
Finish ==
    /\ mpc = "saved"
    /\ ~(args.upload /\ ~args.token)
    /\ exit_code' = 0
    /\ mpc' = "returned"
    /\ UNCHANGED <<include_conversations, fileVars, pipeVars, arenaVars,
                   nameVars, args, response, calls, saved>>

NextMain ==
    \/ AskConsent
    \/ NoPrompt
    \/ MainParse
    \/ StatsMissing
    \/ NoSessionsFound
    \/ MainExport
    \/ MainExportFails
    \/ MainScore
    \/ MainScoreFails
    \/ Save
    \/ UploadWithoutToken
    \/ Finish

vars == <<include_conversations, fileVars, pipeVars, arenaVars, nameVars,
          mainVars>>

Spec == Init /\ [][Next]_vars

SpecFile == InitFile /\ [][NextFile]_vars

SpecArena == InitArena /\ [][NextArena]_vars

SpecName == InitName /\ [][NextName]_vars

SpecMain == InitMain /\ [][NextMain]_vars

----------------------------------------------------------------------------
(* Properties of _parse_session_file (SpecFile) *)

RemoveAt(s, i) == SubSeq(s, 1, i - 1) \o SubSeq(s, i + 1, Len(s))

Returned == fpc = "returned" /\ file.readable

AllUndecodable(lines) == \A i \in 1..Len(lines) : Undecodable(lines[i])

\* C1: for every line that fails to decode, the value returned for the file
\* equals the value returned for the same file with that line removed.
C1_UndecodableLineRemovable ==
    Returned =>
        \A i \in 1..Len(file.lines) :
            Undecodable(file.lines[i]) =>
                result = ParseSessionFile(
                             [file EXCEPT !.lines = RemoveAt(@, i)],
                             Stem, include_conversations)

\* C2: a file with zero lines, and a file all of whose lines fail to decode,
\* yield no SessionRecord (None is returned).
C2_NoRecordWithoutDecodedLine ==
    Returned /\ AllUndecodable(file.lines) => IsNoSession(result)

\* lines that decode as JSON but have an unexpected shape
UnexpectedShape ==
    {ValueLine, Obj(AsstString), Obj(AsstNullTokens), Obj(BadTsEvent)}

\* C3: one decoded line of unexpected shape does not drop the file: when the
\* file has exactly one such line and at least one other line that decodes,
\* a SessionRecord is returned.
C3_ShapeFailureAtLineScope ==
    Returned =>
        \A i \in 1..Len(file.lines) :
            /\ file.lines[i] \in UnexpectedShape
            /\ \A j \in 1..Len(file.lines) \ {i} :
                   file.lines[j] \notin UnexpectedShape
            /\ \E j \in 1..Len(file.lines) \ {i} : ~Undecodable(file.lines[j])
            => ~IsNoSession(result)

\* the timestamps of the events among lines that carry one, in file order
RECURSIVE TimestampsOf(_)
TimestampsOf(lines) ==
    IF lines = <<>> THEN <<>>
    ELSE (IF Head(lines).json = "object"
             /\ "timestamp" \in DOMAIN Head(lines).entry
          THEN <<Head(lines).entry.timestamp>> ELSE <<>>)
         \o TimestampsOf(Tail(lines))

SeenTimestamps == TimestampsOf(SubSeq(file.lines, 1, idx))

NonEmpty(ts) == SelectSeq(ts, LAMBDA t : ~Falsy(t))

\* C10 as claimed: after every event start_time is the timestamp of the
\* first event that carries one, and end_time that of the last.
C10_FirstAndLastTimestamp ==
    fpc = "loop" =>
        /\ session_data.start_time =
              IF SeenTimestamps = <<>> THEN None ELSE SeenTimestamps[1]
        /\ session_data.end_time =
              IF SeenTimestamps = <<>> THEN None
              ELSE SeenTimestamps[Len(SeenTimestamps)]

\* C10 amended: after every event start_time is the first non-empty
\* timestamp seen (before there is one: the last empty one, or unset), and
\* end_time is the timestamp of the last event that carries one.
C10_FirstNonEmptyAndLastTimestamp ==
    fpc = "loop" =>
        /\ session_data.start_time =
              IF NonEmpty(SeenTimestamps) # <<>>
              THEN NonEmpty(SeenTimestamps)[1]
              ELSE IF SeenTimestamps # <<>>
              THEN SeenTimestamps[Len(SeenTimestamps)]
              ELSE None
        /\ session_data.end_time =
              IF SeenTimestamps = <<>> THEN None
              ELSE SeenTimestamps[Len(SeenTimestamps)]

\* three timestamped events of two types: an empty timestamp, then T1, then
\* T2; start_time is the first non-empty one
C10_Witness ==
    /\ fpc = "loop"
    /\ SeenTimestamps = <<"", T1, T2>>
    /\ session_data.start_time = T1
    /\ session_data.end_time = T2

\* the timestamp start_time ends up with: the first non-empty one
FirstSeen(ts) ==
    IF NonEmpty(ts) # <<>> THEN NonEmpty(ts)[1]
    ELSE IF ts # <<>> THEN ts[Len(ts)]
    ELSE None

LastSeen(ts) == IF ts = <<>> THEN None ELSE ts[Len(ts)]

\* C11: in the record returned for a file, duration_seconds is end_time
\* minus start_time in seconds when both are set and 0 when either is
\* missing, start_time and end_time being the first-seen and the last-seen
\* timestamp of the file and not the earliest and the latest.
C11_DurationFromFirstAndLast ==
    Returned /\ ~IsNoSession(result) =>
        LET first == FirstSeen(TimestampsOf(file.lines))
            last == LastSeen(TimestampsOf(file.lines))
        IN  /\ result.start_time = first
            /\ result.end_time = last
            /\ result.duration_seconds =
                   IF Falsy(result.start_time) \/ Falsy(result.end_time)
                   THEN 0
                   ELSE Seconds(result.end_time) - Seconds(result.start_time)
            /\ first = T1 /\ last = T2 => result.duration_seconds = 330

\* the later timestamp comes first in the file: the duration is negative
C11_Witness ==
    /\ Returned
    /\ ~IsNoSession(result)
    /\ TimestampsOf(file.lines) = <<T3, T2, T1>>
    /\ result.duration_seconds = 0 - 133200

----------------------------------------------------------------------------
(* Properties of parse_all_projects (Spec) *)

Range(s) == {s[i] : i \in DOMAIN s}

\* the mapping held by a dict
AsMap(d) == [key \in Keys(d) |-> Lookup(d, key)]

\* sum of f over S
RECURSIVE SumFn(_, _)
SumFn(f, S) ==
    IF S = {} THEN 0
    ELSE LET x == CHOOSE y \in S : TRUE IN f[x] + SumFn(f, S \ {x})

\* files that cannot be read, or whose processing raises
FailingFiles == {UnreadableFile, DroppedFile, StringFile}

\* what _parse_session_file returns for each file of the tree
ParsedTreeFile ==
    [f \in TreeFiles, st \in Stems, inc \in BOOLEAN |->
        ParseSessionFile(f, st, inc)]

\* C4: a file that cannot be read or whose processing raises creates no
\* SessionRecord, the loop goes on, and the records and the token, error
\* and tool totals of the project are those of the other files alone.
C4_FileFailureContained ==
    pc = "project" =>
        LET files == tree[project_dir].files
            good == {st \in DOMAIN files \ files_left :
                        files[st] \notin FailingFiles}
            rec == [st \in good |->
                       ParsedTreeFile[files[st], st, include_conversations]]
            tools == UNION {Range(rec[st].tools_used) : st \in good}
        IN  /\ Keys(project_data.sessions) = good
            /\ \A st \in good : Lookup(project_data.sessions, st) = rec[st]
            /\ \A t \in TokenTypes :
                   project_data.total_tokens[t] =
                       SumFn([st \in good |-> rec[st].token_usage[t]], good)
            /\ project_data.error_count =
                   SumFn([st \in good |-> Len(rec[st].errors)], good)
            /\ Keys(project_data.tool_usage) = tools
            /\ \A tool \in tools :
                   Lookup(project_data.tool_usage, tool) =
                       Cardinality({st \in good :
                                       tool \in Range(rec[st].tools_used)})

\* a project fully parsed with a failing file and its sibling EditFile
C4_Witness ==
    /\ pc = "project"
    /\ files_left = {}
    /\ \E a, b \in DOMAIN tree[project_dir].files :
           /\ tree[project_dir].files[a] \in FailingFiles
           /\ tree[project_dir].files[b] = EditFile
    /\ Len(project_data.sessions) = 1
    /\ project_data.error_count = 2

Done == pc = "done"

\* C5: on a missing root the returned aggregate_stats has the fields and
\* values it has for an existing root without sessions.
C5_MissingRootValidStats ==
    Done /\ ~root_exists =>
        /\ "total_sessions" \in DOMAIN all_data.aggregate_stats
        /\ all_data.aggregate_stats = CalculateAggregateStats(NewAllData)

TotalToolCalls ==
    SumFn(AsMap(all_data.tool_usage), Keys(all_data.tool_usage))

TotalErrors ==
    SumFn([sid \in Keys(all_data.sessions) |->
              Len(Lookup(all_data.sessions, sid).errors)],
          Keys(all_data.sessions))

Rate == all_data.aggregate_stats.error_rate

\* C6 as claimed: error_rate is in [0, 100], and it is 0 exactly when the
\* total of tool invocations is 0.
C6_RateZeroIffNoCalls ==
    Done /\ root_exists =>
        /\ Rate \in 0..RateCap
        /\ Rate = 0 <=> TotalToolCalls = 0

\* C6 amended: error_rate is in [0, 100], and it is 0 whenever the total of
\* tool invocations is 0 or no error was recorded.
C6_RateInRange ==
    Done /\ root_exists =>
        /\ Rate \in 0..RateCap
        /\ TotalToolCalls = 0 => Rate = 0
        /\ TotalErrors = 0 => Rate = 0

\* more errors than tool invocations: the rate is capped
C6_Witness ==
    /\ Done
    /\ TotalToolCalls > 0
    /\ TotalErrors > TotalToolCalls
    /\ Rate = RateCap

Abs(x) == IF x < 0 THEN 0 - x ELSE x

\* C7 as claimed: error_rate = min(100, 100 * errors / invocations) exactly,
\* and 0 when there are no invocations.
C7_RateExact ==
    Done /\ root_exists =>
        IF TotalToolCalls = 0 THEN Rate = 0
        ELSE IF TotalErrors >= TotalToolCalls THEN Rate = RateCap
        ELSE Rate * TotalToolCalls = 100 * 100 * TotalErrors

\* C7 amended: error_rate = min(100, 100 * errors / invocations rounded to
\* 2 decimals), and 0 when there are no invocations.
C7_RateRounded ==
    Done /\ root_exists =>
        IF TotalToolCalls = 0 THEN Rate = 0
        ELSE IF TotalErrors >= TotalToolCalls THEN Rate = RateCap
        ELSE 2 * Abs(Rate * TotalToolCalls - 100 * 100 * TotalErrors)
                 <= TotalToolCalls

\* 2 errors in 3 tool invocations: 66.67
C7_Witness ==
    /\ Done
    /\ TotalErrors = 2
    /\ TotalToolCalls = 3
    /\ Rate = 6667

\* what C8 compares of a ProjectAggregate
ProjectSummary(pd) ==
    [ sessions     |-> Keys(pd.sessions),
      tool_usage   |-> AsMap(pd.tool_usage),
      models_used  |-> AsMap(pd.models_used),
      total_tokens |-> pd.total_tokens,
      error_count  |-> pd.error_count ]

\* what C8 compares of a GlobalStats
GlobalSummary(data) ==
    [ total_tokens   |-> data.aggregate_stats.total_tokens,
      total_errors   |-> data.aggregate_stats.total_errors,
      total_sessions |-> data.aggregate_stats.total_sessions,
      tool_usage     |-> AsMap(data.tool_usage),
      models_used    |-> AsMap(data.models_used),
      projects       |-> [name \in Keys(data.projects) |->
                             ProjectSummary(Lookup(data.projects, name))] ]

\* C8: whatever the order in which entries and files were processed, the
\* token sums, error counts, total_sessions and tool/model mappings are
\* those of processing the same tree in one fixed order.
C8_OrderIndependent ==
    Done /\ root_exists =>
        GlobalSummary(all_data) =
            GlobalSummary(ParseAllProjects(tree, include_conversations))

ProjectCountsPerSession(pd) ==
    LET sessionsWith(tool) ==
            {i \in DOMAIN pd.sessions :
                tool \in Range(pd.sessions[i].v.tools_used)}
        sessionsOf(model) ==
            {i \in DOMAIN pd.sessions : pd.sessions[i].v.model = model}
    IN  /\ \A i \in DOMAIN pd.tool_usage :
               /\ pd.tool_usage[i].v =
                      Cardinality(sessionsWith(pd.tool_usage[i].k))
               /\ pd.tool_usage[i].v <= Len(pd.sessions)
        /\ \A i \in DOMAIN pd.sessions :
               Range(pd.sessions[i].v.tools_used) \subseteq Keys(pd.tool_usage)
        /\ \A i \in DOMAIN pd.models_used :
               pd.models_used[i].v =
                   Cardinality(sessionsOf(pd.models_used[i].k))
        /\ \A i \in DOMAIN pd.sessions :
               ~Falsy(pd.sessions[i].v.model) =>
                   Has(pd.models_used, pd.sessions[i].v.model)

\* C9: in every ProjectAggregate tool_usage[t] is the number of the
\* project's sessions whose tools_used contains t (at most the session
\* count), and models_used[m] the number of sessions whose model is m.
C9_CountsOncePerSession ==
    /\ pc = "project" => ProjectCountsPerSession(project_data)
    /\ \A i \in DOMAIN all_data.projects :
           ProjectCountsPerSession(all_data.projects[i].v)

\* a project of two sessions that both use Read, one of them twice in one
\* event: Read is counted 2
C9_Witness ==
    \E i \in DOMAIN all_data.projects :
        LET pd == all_data.projects[i].v
        IN  /\ Len(pd.sessions) = 2
            /\ Has(pd.tool_usage, "Read")
            /\ Lookup(pd.tool_usage, "Read") = 2
            /\ Has(pd.models_used, "opus")
            /\ Lookup(pd.models_used, "opus") = 2

\* a file in which a line decodes and no event carries a timestamp
Untimed(f) ==
    /\ f.readable
    /\ \E i \in DOMAIN f.lines : ~Undecodable(f.lines[i])
    /\ TimestampsOf(f.lines) = <<>>

UntimedRecord(sessions, stem) ==
    /\ Has(sessions, stem)
    /\ Lookup(sessions, stem).duration_seconds = 0
    /\ Falsy(Lookup(sessions, stem).start_time)
    /\ Falsy(Lookup(sessions, stem).end_time)

\* C12: a file in which at least one line decodes and no event carries a
\* timestamp yields a record with duration_seconds 0 and empty start_time
\* and end_time, which is in the sessions map of its project and in the
\* global one and is counted in total_sessions.
C12_UntimedSessionIncluded ==
    Done /\ root_exists =>
        \A d \in DOMAIN tree : \A st \in DOMAIN tree[d].files :
            Untimed(tree[d].files[st]) =>
                /\ Has(all_data.projects, ExtractProjectName(d))
                /\ UntimedRecord(
                       Lookup(all_data.projects, ExtractProjectName(d)).sessions,
                       st)
                /\ UntimedRecord(all_data.sessions, st)
                /\ all_data.aggregate_stats.total_sessions
                       = Cardinality(Keys(all_data.sessions))

NoTurns(sessions) ==
    \A i \in DOMAIN sessions : sessions[i].v.conversations = [null |-> TRUE]

\* C17: when include_conversations is false no session record, in the
\* project being parsed, in a merged project or in the global map, holds a
\* conversations list: the field is null whatever the files contain.
C17_NoTurnsUnlessRequested ==
    ~include_conversations =>
        /\ pc = "project" => NoTurns(project_data.sessions)
        /\ NoTurns(all_data.sessions)
        /\ \A i \in DOMAIN all_data.projects :
               NoTurns(all_data.projects[i].v.sessions)

\* without the flag, a session parsed from a file that yields a turn when
\* the flag is set
C17_Witness ==
    /\ Done
    /\ ~include_conversations
    /\ \E d \in DOMAIN tree : \E st \in DOMAIN tree[d].files :
           /\ tree[d].files[st] = ReadFile
           /\ ParsedTreeFile[ReadFile, st, TRUE].conversations.list # <<>>
           /\ Has(all_data.sessions, st)
           /\ Lookup(all_data.sessions, st).model = "opus"
           /\ Lookup(all_data.sessions, st).conversations = [null |-> TRUE]

----------------------------------------------------------------------------
(* Properties of export_for_arena and calculate_leaderboard_scores          *)
(* (SpecArena)                                                              *)

\* export_for_arena has returned
Exported == apc \in {"exported", "scored"}

Stats == all_data.aggregate_stats

AllFlags ==
    {"first_session", "getting_started", "power_user", "precision_coder",
     "tool_master", "day_warrior"}

\* C13: the achievements returned are exactly the flags whose threshold holds
\* on the final aggregate (sessions >= 1, >= 10, >= 100, error_rate < 5,
\* distinct tools >= 10, hours >= 24), each listed once and no other.
C13_AchievementsExact ==
    Exported =>
        LET a == arena_data.achievements
            flags == Range(a)
            sessions == Len(all_data.sessions)
        IN  /\ Len(a) = Cardinality(flags)
            /\ flags \subseteq AllFlags
            /\ "first_session" \in flags <=> sessions >= 1
            /\ "getting_started" \in flags <=> sessions >= 10
            /\ "power_user" \in flags <=> sessions >= 100
            /\ "precision_coder" \in flags <=> Stats.error_rate < 500
            /\ "tool_master" \in flags <=>
                   Cardinality(Keys(all_data.tool_usage)) >= 10
            /\ "day_warrior" \in flags <=> Stats.total_duration_hours >= 2400

\* between 10 and 99 sessions, error rate under 5, 10 tools or more, 24
\* hours or more: every flag but power_user
C13_Witness ==
    /\ Exported
    /\ Len(all_data.sessions) \in 10..99
    /\ Range(arena_data.achievements) = AllFlags \ {"power_user"}

\* the place of key in the insertion order of a dict
Pos(d, key) == CHOOSE i \in DOMAIN d : d[i].k = key

\* a is ranked before b: larger count, or equal count and seen first
RankedBefore(d, a, b) ==
    \/ a.v > b.v
    \/ a.v = b.v /\ Pos(d, a.k) < Pos(d, b.k)

\* list holds the n best-ranked items of d (all of them if d has fewer), in
\* rank order
Ranking(list, d, n) ==
    /\ Len(list) = IF Len(d) < n THEN Len(d) ELSE n
    /\ \A i \in DOMAIN list : list[i] \in Range(d)
    /\ \A i, j \in DOMAIN list : i < j => RankedBefore(d, list[i], list[j])
    /\ \A j \in DOMAIN d :
           d[j] \notin Range(list) =>
               \A i \in DOMAIN list : RankedBefore(d, list[i], d[j])

\* C14: most_used_tools holds the (tool, count) pairs of the global
\* tool_usage by count descending, equal counts in first-seen order, cut to
\* 10 entries; most_used_models is ranked alike and holds every model.
C14_MostUsedRanked ==
    pc = "done" =>
        /\ Ranking(Stats.most_used_tools, all_data.tool_usage, 10)
        /\ Ranking(Stats.most_used_models, all_data.models_used,
                   Len(all_data.models_used))
        /\ Len(Stats.most_used_models) = Len(all_data.models_used)

\* 12 tools, of which 10 are kept, and 15 models, all kept; equal counts
\* among both
C14_Witness ==
    /\ pc = "done"
    /\ Len(all_data.tool_usage) = 12
    /\ Len(Stats.most_used_tools) = 10
    /\ Len(Stats.most_used_models) = 15
    /\ Stats.most_used_tools[1].v = Stats.most_used_tools[2].v
    /\ Stats.most_used_tools[2].v > Stats.most_used_tools[3].v
    /\ Stats.most_used_models[1].v > Stats.most_used_models[15].v

\* the turns of all sessions
Pool == PoolConversations(all_data.sessions)

\* how late a turn is: by its timestamp, a turn without one coming first
TurnRank(turn) ==
    IF turn.timestamp = None THEN 0 - 1 ELSE StrRank(turn.timestamp)

\* the number of turns of s whose timestamp is ts
CountOf(s, ts) == Cardinality({i \in DOMAIN s : s[i].timestamp = ts})

\* C15: with include_conversations true, conversation_samples holds the
\* min(50, N) turns of latest timestamp, latest first, and
\* total_conversations is N, the number of turns of all sessions.
C15_LatestFiftySampled ==
    include_conversations /\ apc \in {"exported", "scored", "export_failed"} =>
        /\ Exported
        /\ LET samples == arena_data.conversation_samples
               oldest == samples[Len(samples)]
           IN  /\ arena_data.total_conversations = Len(Pool)
               /\ Len(samples) = IF Len(Pool) < 50 THEN Len(Pool) ELSE 50
               /\ \A i \in DOMAIN samples : samples[i] \in Range(Pool)
               /\ \A i, j \in DOMAIN samples :
                      i < j => TurnRank(samples[i]) >= TurnRank(samples[j])
               /\ \A i \in DOMAIN Pool :
                      CountOf(samples, Pool[i].timestamp)
                          <= CountOf(Pool, Pool[i].timestamp)
               /\ \A i \in DOMAIN Pool :
                      samples # <<>>
                      /\ TurnRank(Pool[i]) > TurnRank(oldest)
                      => CountOf(samples, Pool[i].timestamp)
                             = CountOf(Pool, Pool[i].timestamp)

\* C16: when include_conversations is false the export has no
\* conversation field: conversation_samples and total_conversations are
\* absent (or null), in particular conversation_samples is no empty list.
C16_NoConversationFields ==
    Exported /\ ~include_conversations =>
        /\ "total_conversations" \notin DOMAIN arena_data
        /\ \/ "conversation_samples" \notin DOMAIN arena_data
           \/ arena_data.conversation_samples # <<>>

\* the sessions of under 5 minutes without a recorded error
QuickSessions ==
    {i \in DOMAIN all_data.sessions :
        /\ all_data.sessions[i].v.duration_seconds < 300
        /\ Len(all_data.sessions[i].v.errors) = 0}

\* score is 100 * part / total rounded to 2 decimals, in hundredths
Percentage(score, part, total) ==
    2 * Abs(score * total - 100 * 100 * part) <= total

\* C18: speed_demon_score is 100 times the number of sessions under 5
\* minutes with no recorded error over total_sessions, rounded to 2
\* decimals, hence in [0, 100], and 0 when there is no session.
C18_SpeedDemonScore ==
    apc = "scored" =>
        LET score == arena_data.leaderboard_stats.speed_demon_score
            total == Len(all_data.sessions)
        IN  /\ score \in 0..(100 * 100)
            /\ total = 0 => score = 0
            /\ total > 0 =>
                   Percentage(score, Cardinality(QuickSessions), total)

\* 8 of 9 sessions are quick, the ninth is short but has errors: 88.89
C18_Witness ==
    /\ apc = "scored"
    /\ Len(all_data.sessions) = 9
    /\ Cardinality(QuickSessions) = 8
    /\ \E i \in DOMAIN all_data.sessions :
           /\ all_data.sessions[i].v.duration_seconds = 0
           /\ Len(all_data.sessions[i].v.errors) > 0
    /\ arena_data.leaderboard_stats.speed_demon_score = 8889

\* the sessions whose start, in UTC, is at 22:00 or later or before 04:00
NightSessionsUtc ==
    {i \in DOMAIN all_data.sessions :
        /\ ~Falsy(all_data.sessions[i].v.start_time)
        /\ \/ UtcHour(all_data.sessions[i].v.start_time) >= 22
           \/ UtcHour(all_data.sessions[i].v.start_time) < 4}

\* C19: night_owl_score is 100 times the number of sessions whose start
\* hour in UTC is at least 22 or below 4 over total_sessions, rounded to 2
\* decimals; a start_time with an offset counts by its UTC hour, a session
\* without start_time does not count, and the score is 0 without sessions.
C19_NightOwlByUtcHour ==
    apc = "scored" =>
        LET score == arena_data.leaderboard_stats.night_owl_score
            total == Len(all_data.sessions)
        IN  /\ total = 0 => score = 0
            /\ total > 0 =>
                   Percentage(score, Cardinality(NightSessionsUtc), total)

\* C20: precisionist_score is max(0, 100 - error_rate), hence in [0, 100]
\* and summing to 100 with error_rate; tool_master_score is the number of
\* distinct tools of the global tool_usage; marathon_score is
\* total_duration_hours.
C20_LeaderboardFormulas ==
    Exported =>
        LET scores == arena_data.leaderboard_stats
        IN  /\ scores.precisionist_score =
                   IF 100 * 100 - Stats.error_rate > 0
                   THEN 100 * 100 - Stats.error_rate ELSE 0
            /\ scores.precisionist_score \in 0..(100 * 100)
            /\ scores.precisionist_score + Stats.error_rate = 100 * 100
            /\ scores.tool_master_score =
                   Cardinality(Keys(all_data.tool_usage))
            /\ scores.marathon_score = Stats.total_duration_hours

\* 2 errors in 11 tool uses (18.18%), 10 distinct tools, 37 hours
C20_Witness ==
    /\ Exported
    /\ Stats.error_rate = 1818
    /\ arena_data.leaderboard_stats.precisionist_score = 8182
    /\ arena_data.leaderboard_stats.tool_master_score = 10
    /\ SumValues(all_data.tool_usage) = 11
    /\ arena_data.leaderboard_stats.marathon_score = 3700

----------------------------------------------------------------------------
(* Properties of daily_usage and daily_activity (SpecArena) *)

\* the sessions that have a start_time, by the date it begins with
TimedSessions ==
    {i \in DOMAIN all_data.sessions :
        ~Falsy(all_data.sessions[i].v.start_time)}

DateSessions(date) ==
    {i \in TimedSessions : DateOf(all_data.sessions[i].v.start_time) = date}

StartDates == {DateOf(all_data.sessions[i].v.start_time) : i \in TimedSessions}

\* the bucket the sessions of a date make
DateBucket(date) ==
    [sessions |-> Cardinality(DateSessions(date)),
     tokens |-> SumFn([i \in DateSessions(date) |->
                          SessionTokens(all_data.sessions[i].v)],
                      DateSessions(date))]

\* C21: after parse_all_projects daily_usage has one bucket per date of a
\* session with a start_time, holding the number of those sessions and the
\* sum of their four token counters, no other bucket, and the export's
\* daily_activity holds the same buckets.
C21_DailyUsageBuckets ==
    Exported =>
        /\ Keys(all_data.daily_usage) = StartDates
        /\ \A date \in StartDates :
               Lookup(all_data.daily_usage, date) = DateBucket(date)
        /\ AsMap(arena_data.daily_activity) = AsMap(all_data.daily_usage)

----------------------------------------------------------------------------
(* Properties of the global totals (Spec) *)

\* the ProjectAggregates of GlobalStats.projects, by position
Projects == all_data.projects

\* sum over the projects of what g gives for each
SumOverProjects(g(_)) ==
    SumFn([i \in DOMAIN Projects |-> g(Projects[i].v)], DOMAIN Projects)

\* the count a project mapping holds for a key, 0 when it has none
CountIn(d, key) == IF Has(d, key) THEN Lookup(d, key) ELSE 0

ProjectTools == UNION {Keys(Projects[i].v.tool_usage) : i \in DOMAIN Projects}
ProjectModels == UNION {Keys(Projects[i].v.models_used) : i \in DOMAIN Projects}

\* C22: the global totals are the pointwise sums of the project totals:
\* each token counter, the error count, the session count, and the tool
\* and model mappings.
C22_GlobalIsSumOfProjects ==
    Done /\ root_exists =>
        /\ \A t \in TokenTypes :
               Stats.total_tokens[t] =
                   SumOverProjects(LAMBDA pd : pd.total_tokens[t])
        /\ Stats.total_errors = SumOverProjects(LAMBDA pd : pd.error_count)
        /\ Stats.total_sessions =
               SumOverProjects(LAMBDA pd : Len(pd.sessions))
        /\ Keys(all_data.tool_usage) = ProjectTools
        /\ \A tool \in ProjectTools :
               Lookup(all_data.tool_usage, tool) =
                   SumOverProjects(LAMBDA pd : CountIn(pd.tool_usage, tool))
        /\ Keys(all_data.models_used) = ProjectModels
        /\ \A model \in ProjectModels :
               Lookup(all_data.models_used, model) =
                   SumOverProjects(LAMBDA pd : CountIn(pd.models_used, model))

----------------------------------------------------------------------------
(* Properties of the event handlers (SpecFile) *)

\* the event of a line that decoded to an object, by type
IsEvent(line, type) ==
    line.json = "object" /\ Get(line.entry, "type", "") = type

\* a step of the loop that processed line idx + 1 and went on
LoopStep == fpc = "loop" /\ fpc' = "loop" /\ idx' = idx + 1

\* what an event adds to the counter fed from a usage sub-field
UsageOf(line, field) ==
    IF IsEvent(line, "assistant") /\ "usage" \in DOMAIN Message(line.entry)
    THEN Get(Message(line.entry).usage, field, 0)
    ELSE 0

UsageSum(field) ==
    SumFn([i \in 1..idx |-> UsageOf(file.lines[i], field)], 1..idx)

TokensAreSums ==
    fpc = "loop" =>
        /\ session_data.token_usage["input"] = UsageSum("input_tokens")
        /\ session_data.token_usage["output"] = UsageSum("output_tokens")
        /\ session_data.token_usage["cache_read"] =
               UsageSum("cache_read_input_tokens")
        /\ session_data.token_usage["cache_creation"] =
               UsageSum("cache_creation_input_tokens")

TokensStep ==
    LoopStep =>
        /\ ~IsEvent(file.lines[idx + 1], "assistant") =>
               session_data'.token_usage = session_data.token_usage
        /\ \A t \in TokenTypes :
               session_data'.token_usage[t] >= session_data.token_usage[t]

\* C23: after any sequence of events each token counter is the sum, over
\* the assistant events processed so far that carry message.usage, of its
\* usage sub-field, a missing sub-field counting as 0; events of another
\* type leave token_usage unchanged and no counter ever decreases.
C23_TokenCountersAreSums == []TokensAreSums /\ [][TokensStep]_vars

\* AsstRead (input 1, output 2), a user event, AsstEdit (3, 1, 2, 1)
C23_Witness ==
    /\ fpc = "loop"
    /\ idx = 3
    /\ file.lines = <<Obj(AsstRead), Obj(UserErrors), Obj(AsstEdit)>>
    /\ session_data.token_usage =
           [input |-> 4, output |-> 3, cache_read |-> 2, cache_creation |-> 1]

\* the content items of an event, when its content is a list
ItemsOf(entry) ==
    LET message == Message(entry)
    IN  IF "content" \in DOMAIN message /\ "list" \in DOMAIN message.content
        THEN message.content.list ELSE <<>>

\* the tool-result items of a user event whose error flag is set
FailedItems(entry) ==
    SelectSeq(ItemsOf(entry),
              LAMBDA item : /\ Get(item, "type", None) = "tool_result"
                            /\ Get(item, "is_error", FALSE))

\* the tool_use_result of the event is a string with the error marker
MarkedResult(entry) ==
    /\ "toolUseResult" \in DOMAIN entry
    /\ "str" \in DOMAIN entry.toolUseResult
    /\ entry.toolUseResult.str = "Error: command failed"

\* the error entries a user event makes
ExpectedErrors(entry) ==
    LET ts == Get(entry, "timestamp", None)
        failed == FailedItems(entry)
    IN  [i \in 1..Len(failed) |->
            [timestamp |-> ts,
             error |-> Get(failed[i], "content", "Unknown error")]]
        \o (IF MarkedResult(entry)
            THEN <<[timestamp |-> ts, error |-> entry.toolUseResult.str]>>
            ELSE <<>>)

ErrorsStep ==
    LoopStep =>
        LET line == file.lines[idx + 1]
        IN  session_data'.errors =
                session_data.errors
                \o (IF IsEvent(line, "user") THEN ExpectedErrors(line.entry)
                    ELSE <<>>)

\* C24: a user event appends to errors one entry per tool-result item whose
\* error flag is set, then one entry if tool_use_result is a string that
\* starts with the error marker, each with the event's timestamp; the
\* entries already there stay as they are and in place, and an event of
\* another type appends nothing.
C24_UserEventAppendsErrors == [][ErrorsStep]_vars

\* two user events with a failed item and a marked result each: four
\* entries, in file order
C24_Witness ==
    /\ fpc = "loop"
    /\ idx = 3
    /\ file.lines = <<Obj(UserErrors), Obj(AsstRead), Obj(UserErrors)>>
    /\ session_data.errors =
           <<[timestamp |-> T3, error |-> "boom"],
             [timestamp |-> T3, error |-> ErrorResult],
             [timestamp |-> T3, error |-> "boom"],
             [timestamp |-> T3, error |-> ErrorResult]>>

\* what of a session an event of a type without handler must leave alone
Accumulated(sd) ==
    <<sd.tools_used, sd.token_usage, sd.errors, sd.model, sd.conversations>>

FrameStep ==
    LoopStep =>
        LET line == file.lines[idx + 1]
        IN  line.json = "object"
            /\ Get(line.entry, "type", "") \notin {"user", "assistant"}
            => Accumulated(session_data') = Accumulated(session_data)

\* C25: an event whose type is system, or any type other than user and
\* assistant, leaves tools_used, token_usage, errors, model and
\* conversations of the session unchanged.
C25_OtherEventsChangeNothing == [][FrameStep]_vars

\* a system event and an unrecognized one after an assistant event that set
\* a model, tokens, a tool and, with extraction, a turn
C25_Witness ==
    /\ fpc = "loop"
    /\ idx = 3
    /\ file.lines = <<Obj(AsstRead), Obj(SystemEvent), Obj(SummaryEvent)>>
    /\ include_conversations
    /\ session_data.model = "opus"
    /\ session_data.tools_used = {"Read"}
    /\ Len(session_data.conversations.list) = 1
    /\ session_data.end_time = T2

\* the text a turn is made from: the whole string of a user's plain-string
\* content, else the text of the first text-typed item of a content list
TurnText(entry, role) ==
    LET message == Message(entry)
        texts == SelectSeq(ItemsOf(entry),
                           LAMBDA item : Get(item, "type", None) = "text")
    IN  IF "content" \in DOMAIN message /\ "str" \in DOMAIN message.content
        THEN (IF role = "user" THEN message.content.str ELSE EmptyText)
        ELSE IF texts = <<>> THEN EmptyText
        ELSE Get(texts[1], "text", EmptyText)

\* the names of the tool_use items of an event, in order
InvokedTools(entry) ==
    LET uses == SelectSeq(ItemsOf(entry),
                          LAMBDA item : Get(item, "type", None) = "tool_use")
    IN  [i \in 1..Len(uses) |-> Get(uses[i], "name", "unknown")]

\* the turn of a user or assistant event
TurnOf(entry) ==
    LET role == entry.type
        text == TurnText(entry, role)
    IN  [ timestamp  |-> Get(entry, "timestamp", None),
          role       |-> role,
          content    |-> [s |-> text.s,
                          n |-> IF text.n > 1000 THEN 1000 ELSE text.n],
          model      |-> IF role = "assistant"
                         THEN Get(Message(entry), "model", None) ELSE None,
          tools_used |-> IF role = "assistant" THEN InvokedTools(entry)
                         ELSE <<>> ]

IsTurnEvent(line) == IsEvent(line, "user") \/ IsEvent(line, "assistant")

\* the turns of the lines processed so far, one per event that satisfies keep
TurnsSoFar(keep(_)) ==
    LET seen == SelectSeq(SubSeq(file.lines, 1, idx),
                          LAMBDA line : IsTurnEvent(line) /\ keep(line.entry))
    IN  [i \in 1..Len(seen) |-> TurnOf(seen[i].entry)]

\* C26 as claimed: with extraction enabled every user or assistant event
\* of the file appends one turn, in file order, with its timestamp, role,
\* text cut to 1000 characters, model (assistant only) and tools invoked.
C26_TurnPerEvent ==
    fpc = "loop" /\ include_conversations =>
        session_data.conversations.list = TurnsSoFar(LAMBDA entry : TRUE)

\* C26 amended: with extraction enabled every user or assistant event
\* whose text is not empty appends one turn, in file order, with its
\* timestamp, role, text cut to 1000 characters, model (assistant only) and
\* tools invoked; an event without text appends no turn, and no recorded
\* content is longer than 1000 characters.
C26_TurnPerEventWithText ==
    fpc = "loop" /\ include_conversations =>
        /\ session_data.conversations.list =
               TurnsSoFar(LAMBDA entry :
                              TurnText(entry, entry.type).n > 0)
        /\ \A i \in DOMAIN session_data.conversations.list :
               session_data.conversations.list[i].content.n <= 1000

\* an assistant event with a long text, one with tools only, and a user
\* event with a long text after a tool result: two turns, both cut
C26_Witness ==
    /\ fpc = "loop"
    /\ include_conversations
    /\ idx = 3
    /\ file.lines = <<Obj(AsstRead), Obj(AsstEdit), Obj(UserResultOk)>>
    /\ Len(session_data.conversations.list) = 2
    /\ session_data.conversations.list[1].tools_used = <<"Read", "Read">>
    /\ session_data.conversations.list[1].content.n = 1000
    /\ session_data.conversations.list[2].role = "user"
    /\ session_data.conversations.list[2].content.n = 1000

----------------------------------------------------------------------------
(* Properties of _extract_project_name (SpecName) *)

\* the name without its leading and trailing dashes and path separators
Cleaned(name) ==
    LET inner == {i \in DOMAIN name : name[i] \notin {"-", "/"}}
    IN  IF inner = {} THEN <<>>
        ELSE SubSeq(name,
                    CHOOSE i \in inner : \A j \in inner : i <= j,
                    CHOOSE i \in inner : \A j \in inner : j <= i)

\* the positions of the dashes of a name
Dashes(name) == {i \in DOMAIN name : name[i] = "-"}

\* the positions where a segment "project" stands with a segment after it
ProjectSegments(name) ==
    {i \in DOMAIN name :
        /\ name[i] = "project"
        /\ i = 1 \/ name[i - 1] = "-"
        /\ i < Len(name) /\ name[i + 1] = "-"}

\* the position of the k-th dash from the end
RECURSIVE DashFromEnd(_, _)
DashFromEnd(name, k) ==
    LET last == CHOOSE i \in Dashes(name) : \A j \in Dashes(name) : j <= i
    IN  IF k = 1 THEN last
        ELSE DashFromEnd(SubSeq(name, 1, last - 1), k - 1)

\* the name the claim gives for a directory name
ClaimedName(name) ==
    LET clean == Cleaned(name)
        marks == ProjectSegments(clean)
        first == CHOOSE i \in marks : \A j \in marks : i <= j
    IN  IF Len(clean) >= 2 /\ clean[1] = "Users" /\ clean[2] = "-"
           /\ marks # {}
        THEN SubSeq(clean, first + 2, Len(clean))
        ELSE IF Cardinality(Dashes(clean)) + 1 > 3
        THEN SubSeq(clean, DashFromEnd(clean, 3) + 1, Len(clean))
        ELSE clean

\* C27: _extract_project_name strips leading and trailing dashes and path
\* separators; a cleaned name that begins with "Users-" and has a segment
\* "project" followed by a segment gives everything after the first such
\* segment; any other gives its last 3 dash-separated components when it
\* has more than 3, and the whole cleaned name otherwise.
C27_ProjectNameRules ==
    name_result # Pending => name_result.name = ClaimedName(name_arg)

\* Users-project-project-app: cut after the first "project"
C27_Witness ==
    /\ name_arg = <<"Users", "-", "project", "-", "project", "-", "app">>
    /\ name_result # Pending
    /\ name_result.name = <<"project", "-", "app">>

----------------------------------------------------------------------------
(* Properties of main (SpecMain) *)

\* the consent prompt was shown in this run and the answer was yes
Consented == response # None /\ Lower(response) = "yes"

\* C28: in the import script parse_all_projects and export_for_arena are
\* called with include_conversations true only after the user has answered
\* yes to the consent prompt of that run; after any other answer, or when
\* no prompt is shown, both calls are made with include_conversations false.
C28_ConversationsOnlyAfterConsent ==
    \A i \in DOMAIN calls : calls[i].include_conversations => Consented

----------------------------------------------------------------------------
(* Properties of the project map (Spec) *)

\* the ProjectAggregates whose session map holds a session of the global map
ProjectsHolding(i) ==
    {j \in DOMAIN Projects :
        /\ Has(Projects[j].v.sessions, all_data.sessions[i].k)
        /\ Lookup(Projects[j].v.sessions, all_data.sessions[i].k)
               = all_data.sessions[i].v}

\* the project directories one of whose files gave a SessionRecord
ProductiveDirs ==
    {d \in DOMAIN tree :
        /\ tree[d].is_dir
        /\ \E st \in DOMAIN tree[d].files :
               ~IsNoSession(ParsedTreeFile[tree[d].files[st], st,
                                           include_conversations])}

\* C29: after parse_all_projects every session of the global map is in the
\* session map of exactly one ProjectAggregate of GlobalStats.projects, and
\* total_projects is the number of project directories that gave at least
\* one SessionRecord, also when two directory names give the same project
\* name.
C29_SessionsInOneProject ==
    Done /\ root_exists =>
        /\ \A i \in DOMAIN all_data.sessions :
               Cardinality(ProjectsHolding(i)) = 1
        /\ Stats.total_projects = Cardinality(ProductiveDirs)

----------------------------------------------------------------------------
(* Properties of the achievement flags together (SpecArena) *)

Awarded == Range(arena_data.achievements)

\* C30: any non-empty achievement set returned by export_for_arena holds
\* first_session: a snapshot without sessions gets no achievement, and
\* power_user implies getting_started, which implies first_session.
C30_AchievementsNeedFirstSession ==
    Exported =>
        /\ Awarded # {} => "first_session" \in Awarded
        /\ Stats.total_sessions = 0 => Awarded = {}
        /\ "power_user" \in Awarded => "getting_started" \in Awarded
        /\ "getting_started" \in Awarded => "first_session" \in Awarded

====
